---- MODULE Spec2Model ----
(***************************************************************************)
(* Model of the undefined-spec-detector analysis pipeline:                 *)
(*   RequirementParser.parse  ->  UndefinedExtractor.extract               *)
(*   (ActionTypeClassifier.classify, CriticalityJudge.judge,               *)
(*    QuestionGenerator.generate inside extract),                          *)
(* and of the model-backed detector's conversion step.                     *)
(*                                                                         *)
(* Text.  A Python str is modelled as a sequence of atoms.  Every atom     *)
(* stands for a fixed non-empty run of characters and is written in        *)
(* romanised form ("sakujo" is the word the DELETE table lists first,      *)
(* "wo" and "ha" are the particles of the action patterns, "." is the      *)
(* full stop U+3002, "-" the long-vowel mark).  The words of the program's *)
(* vocabularies that overlap at character level are cut into smaller       *)
(* atoms (yuza-, to suru, ko to, to ki, teiki teki, deta ido, hen kou,     *)
(* kou shin, shin ki2), so that `word in text` of the source is exactly    *)
(* "the atoms of word occur contiguously in text".                         *)
(*                                                                         *)
(* Floats.  Scores that the source accumulates in binary floating point    *)
(* are carried as integer codes in thousandths; a code one above or below  *)
(* a multiple of 100 stands for the double just above or below that        *)
(* decimal (601 is 0.6000000000000001, 899 is 0.8999999999999999).         *)
(***************************************************************************)
EXTENDS Integers, Sequences, FiniteSets, TLC

VARIABLES
    text,             \* InputDocument.content
    templates,        \* external checklist templates (templates_dir), by category
    pc,               \* position of the caller: "start", "parsed", "extracted", "again";
                      \* "detect", "detected"; "judged"
    parsed,           \* ParsedRequirement returned by parse
    templates_cache,  \* CriticalityJudge.templates_cache
    result,           \* UndefinedElements returned by the first extract
    result2,          \* UndefinedElements returned by the second extract
    element,          \* checklist item handed to judge on its own
    judged,           \* CriticalityResult returned by judge
    llm_response,     \* content returned by the model request
    llm_out,          \* outcome of detect_unknown_terms
    calls,            \* the calls made on one CriticalityJudge, in order
    extractor,        \* outcome of UndefinedExtractor(...), with its keyword arguments
    callers,          \* the concurrent callers of load_template: position and locals
    detector          \* LLMUnknownTermDetector: max_cost, total_cost, call_count

vars == <<text, templates, pc, parsed, templates_cache, result, result2,
          element, judged, llm_response, llm_out, calls, extractor, callers, detector>>

(* An absent string is None; an absent id, match or nested object is the   *)
(* empty tuple.                                                            *)
None == "None"

NoId == <<>>

-----------------------------------------------------------------------------
(* Strings *)

Whitespace == {" ", "\t"}

Contains(t, w) ==
    \E i \in 1..(Len(t) - Len(w) + 1) : \A k \in 1..Len(w) : t[i + k - 1] = w[k]

AnyIn(words, t) == \E k \in 1..Len(words) : Contains(t, words[k])

IndexOf(s, a) ==
    IF \E i \in 1..Len(s) : s[i] = a
    THEN CHOOSE i \in 1..Len(s) : s[i] = a /\ \A j \in 1..(i - 1) : s[j] # a
    ELSE 0

RECURSIVE split(_, _)
split(s, sep) ==
    LET i == IndexOf(s, sep)
    IN  IF i = 0 THEN <<s>>
        ELSE <<SubSeq(s, 1, i - 1)>> \o split(SubSeq(s, i + 1, Len(s)), sep)

RECURSIVE lstrip(_)
lstrip(s) == IF s # <<>> /\ Head(s) \in Whitespace THEN lstrip(Tail(s)) ELSE s

RECURSIVE rstrip(_)
rstrip(s) ==
    IF s # <<>> /\ s[Len(s)] \in Whitespace THEN rstrip(SubSeq(s, 1, Len(s) - 1)) ELSE s

strip(s) == rstrip(lstrip(s))

RECURSIVE Flatten(_)
Flatten(ss) == IF ss = <<>> THEN <<>> ELSE Head(ss) \o Flatten(Tail(ss))

Min(a, b) == IF a <= b THEN a ELSE b

Max(a, b) == IF a >= b THEN a ELSE b

(* x + inc in IEEE double arithmetic, on the codes described above. *)
FloatAdd(x, inc) ==
    CASE x = 100  /\ inc = 200 -> 301
      [] x = 400  /\ inc = 200 -> 601
      [] x = 601  /\ inc = 200 -> 800
      [] x = 601  /\ inc = 300 -> 901
      [] x = 700  /\ inc = 200 -> 899
      [] x = 1400 /\ inc = 200 -> 1599
      [] x = 1599 /\ inc = 200 -> 1799
      [] x = 1599 /\ inc = 300 -> 1900
      [] x = 1799 /\ inc = 200 -> 1999
      [] x = 1799 /\ inc = 300 -> 2099
      [] x = 1999 /\ inc = 200 -> 2199
      [] x = 1999 /\ inc = 300 -> 2300
      [] x = 2199 /\ inc = 200 -> 2400
      [] x = 2199 /\ inc = 300 -> 2499
      [] x = 2400 /\ inc = 300 -> 2699
      [] x = 2600 /\ inc = 200 -> 2801
      [] x = 2801 /\ inc = 200 -> 3001
      [] x = 2801 /\ inc = 300 -> 3100
      [] OTHER -> x + inc

-----------------------------------------------------------------------------
(* RequirementParser *)

SentenceTerminator == "."

requirement_cues ==
    << <<"dekiru">>, <<"kano">>, <<"suru">> >>

constraint_cues ==
    << <<"to", "suru">>, <<"ko", "to">>, <<"hitsuyo">> >>

example_cues ==
    << <<"tatoeba">>, <<"nado">> >>

(* _classify_sentence_type with its tests in the opposite order. *)
classify_example_first(t) ==
    IF AnyIn(example_cues, t) THEN "example"
    ELSE IF AnyIn(constraint_cues, t) THEN "constraint"
    ELSE IF AnyIn(requirement_cues, t) THEN "requirement"
    ELSE "explanation"

classify_sentence_type(t) ==
    IF AnyIn(requirement_cues, t) THEN "requirement"
    ELSE IF AnyIn(constraint_cues, t) THEN "constraint"
    ELSE IF AnyIn(example_cues, t) THEN "example"
    ELSE "explanation"

(* sub_sentences without the trimming in its filter: every segment that    *)
(* holds a character is kept.                                              *)
keep_untrimmed_segments(line) ==
    LET parts == SelectSeq(split(line, SentenceTerminator), LAMBDA s : s # <<>>)
    IN  [k \in 1..Len(parts) |-> strip(parts[k])]

sub_sentences(line) ==
    LET parts == split(line, SentenceTerminator)
    IN  SelectSeq([k \in 1..Len(parts) |-> strip(parts[k])], LAMBDA s : s # <<>>)

(* extract_sentences that makes a sentence of every line as it stands. *)
one_sentence_per_line(content) ==
    LET lines == split(content, "\n")
    IN  [n \in 1..Len(lines) |->
            [id |-> <<"S", n>>,
             text |-> lines[n],
             line_number |-> n,
             type |-> classify_sentence_type(lines[n]),
             importance |-> "medium"]]

is_skipped_line(line) == line = <<>> \/ Head(line) = "#"

extract_sentences(content) ==
    LET lines == split(content, "\n")
        RECURSIVE walk(_, _)
        walk(n, acc) ==
            IF n > Len(lines) THEN acc
            ELSE LET line == strip(lines[n])
                 IN  IF is_skipped_line(line) THEN walk(n + 1, acc)
                     ELSE LET subs == sub_sentences(line)
                          IN  walk(n + 1,
                                   acc \o [k \in 1..Len(subs) |->
                                       [id |-> <<"S", Len(acc) + k>>,
                                        text |-> subs[k],
                                        line_number |-> n,
                                        type |-> classify_sentence_type(subs[k]),
                                        importance |-> "medium"]])
    IN  walk(1, <<>>)

common_nouns ==
    << <<"yuza", "-">>, <<"yuza">>, <<"riyosha">>, <<"shohin">>,
       <<"seihin">>, <<"aitemu">>, <<"kato">>, <<"deta">>, <<"joho">>,
       <<"kakaku">>, <<"kingaku">>, <<"zaiko">>, <<"chumon">>, <<"oda">>,
       <<"kessai">>, <<"konyu">>, <<"shisutemu">>, <<"sabisu">>,
       <<"pasuwado">>, <<"meru">>, <<"akaunto">>, <<"roguin">> >>

actor_keywords ==
    { <<"yuza", "-">>, <<"yuza">>, <<"riyosha">>, <<"kanrisha">>,
       <<"opereta">> }

object_keywords ==
    { <<"shohin">>, <<"seihin">>, <<"aitemu">>, <<"kato">>, <<"chumon">> }

data_keywords ==
    { <<"deta">>, <<"joho">>, <<"kakaku">>, <<"kingaku">>, <<"zaiko">> }

system_keywords ==
    { <<"shisutemu">>, <<"sabisu">>, <<"apuri">> }

infer_entity_type(noun) ==
    IF noun \in actor_keywords THEN "actor"
    ELSE IF noun \in object_keywords THEN "object"
    ELSE IF noun \in data_keywords THEN "data"
    ELSE IF noun \in system_keywords THEN "system"
    ELSE "object"

extract_entities(content, sentences) ==
    LET found == SelectSeq(common_nouns, LAMBDA noun : Contains(content, noun))
    IN  [k \in 1..Len(found) |->
            [id |-> <<"E", k>>,
             name |-> found[k],
             type |-> infer_entity_type(found[k]),
             attributes |-> <<>>,
             mentions |-> LET hit == SelectSeq(sentences,
                                               LAMBDA s : Contains(s.text, found[k]))
                          IN  [m \in 1..Len(hit) |-> hit[m].id],
             definition_status |-> "undefined",
             ambiguity_score |-> 700]]

verb_patterns ==
    << <<"tsuika">>, <<"sakujo">>, <<"hen", "kou">>, <<"kakunin">>,
       <<"hyoji">>, <<"toroku">>, <<"kou", "shin">>, <<"shutoku">>,
       <<"soshin">>, <<"jikko">> >>

extract_verb(t) ==
    LET hit == SelectSeq(verb_patterns, LAMBDA v : Contains(t, v))
    IN  IF hit = <<>> THEN <<"shori">> ELSE Head(hit)

find_entity(t, entities) ==
    LET hit == SelectSeq(entities, LAMBDA e : Contains(t, e.name))
    IN  IF hit = <<>> THEN NoId ELSE Head(hit).id

SetMin(S) == CHOOSE x \in S : \A y \in S : x <= y

SetMax(S) == CHOOSE x \in S : \A y \in S : x >= y

(* Index at which the lazy group of r'(.+?)marker' ends: the first place,  *)
(* after at least one atom, where marker starts; 0 when re.search fails.   *)
lazy_before(t, marker) ==
    LET I == {i \in 2..Len(t) : Len(t) - i + 1 >= Len(marker) /\
                                \A k \in 1..Len(marker) : t[i + k - 1] = marker[k]}
    IN  IF I = {} THEN 0 ELSE SetMin(I)

condition_patterns == << <<"baai">>, <<"to", "ki">>, <<"sai">> >>

extract_conditions(t) ==
    LET hit == SelectSeq(condition_patterns, LAMBDA m : lazy_before(t, m) # 0)
    IN  [k \in 1..Len(hit) |->
            [description |-> strip(SubSeq(t, 1, lazy_before(t, hit[k]) - 1)),
             type |-> "precondition",
             defined |-> FALSE,
             ambiguous |-> TRUE,
             entities |-> <<>>]]

(* re.search(r'(.+?)ha(.+?)wo(.+?)dekiru', t): <<group 1, group 2>>, or    *)
(* <<>> when there is no match.                                            *)
match_subject_object_verb(t) ==
    LET rest_matches(j) == t[j] = "wo" /\ \E k \in (j + 2)..Len(t) : t[k] = "dekiru"
        matches(i) == t[i] = "ha" /\ \E j \in (i + 2)..Len(t) : rest_matches(j)
    IN  IF \A i \in 2..Len(t) : ~matches(i) THEN <<>>
        ELSE LET i == SetMin({x \in 2..Len(t) : matches(x)})
                 j == SetMin({x \in (i + 2)..Len(t) : rest_matches(x)})
             IN  <<SubSeq(t, 1, i - 1), SubSeq(t, i + 1, j - 1)>>

(* re.search(r'(.+?)wo(.+?)suru', t): <<group 1, group 2>>, or <<>>. *)
match_object_verb(t) ==
    LET matches(i) == t[i] = "wo" /\ \E k \in (i + 2)..Len(t) : t[k] = "suru"
    IN  IF \A i \in 2..Len(t) : ~matches(i) THEN <<>>
        ELSE LET i == SetMin({x \in 2..Len(t) : matches(x)})
                 k == SetMin({x \in (i + 2)..Len(t) : t[x] = "suru"})
             IN  <<SubSeq(t, 1, i - 1), SubSeq(t, i + 1, k - 1)>>

(* The action patterns in the opposite order. *)
match_object_verb_first(t) ==
    LET m == match_object_verb(t)
    IN  IF m # <<>> THEN m ELSE match_subject_object_verb(t)

(* The action patterns in their fixed order; the first that matches wins. *)
match_action(t) ==
    LET m == match_subject_object_verb(t)
    IN  IF m # <<>> THEN m ELSE match_object_verb(t)

error_words ==
    << <<"era">>, <<"shippai">>, <<"dekinai">>, <<"fuka">> >>

extract_actions(sentences, entities) ==
    LET hit == SelectSeq(sentences, LAMBDA s : match_action(s.text) # <<>>)
    IN  [k \in 1..Len(hit) |->
            LET t == hit[k].text
                m == match_action(t)
                subject_entity == find_entity(m[1], entities)
            IN  [id |-> <<"A", k>>,
                 verb |-> extract_verb(t),
                 subject |-> IF subject_entity # NoId THEN subject_entity ELSE <<"UNKNOWN">>,
                 object |-> find_entity(m[2], entities),
                 preconditions |-> extract_conditions(t),
                 error_handling |-> [mentioned |-> AnyIn(error_words, t),
                                     defined |-> FALSE]]]

completeness_verbs ==
    << <<"dekiru">>, <<"suru">>, <<"hyoji">>, <<"tsuika">> >>

completeness_error_words ==
    << <<"era">>, <<"shippai">>, <<"dekinai">> >>

(* _calculate_completeness that credits error language only next to a verb. *)
calculate_completeness_dependent(t, entities) ==
    LET has_entity == \E k \in 1..Len(entities) : Contains(t, entities[k].name)
        has_verb == AnyIn(completeness_verbs, t)
        has_condition == Contains(t, <<"baai">>) \/ Contains(t, <<"to", "ki">>)
        has_error == has_verb /\ AnyIn(completeness_error_words, t)
        s1 == IF has_entity THEN FloatAdd(0, 300) ELSE 0
        s2 == IF has_verb THEN FloatAdd(s1, 300) ELSE s1
        s3 == IF has_condition THEN FloatAdd(s2, 100) ELSE s2
        s4 == IF has_error THEN FloatAdd(s3, 200) ELSE s3
    IN  Min(s4, 1000)

calculate_completeness(t, entities) ==
    LET has_entity == \E k \in 1..Len(entities) : Contains(t, entities[k].name)
        has_verb == AnyIn(completeness_verbs, t)
        has_condition == Contains(t, <<"baai">>) \/ Contains(t, <<"to", "ki">>)
        has_error == AnyIn(completeness_error_words, t)
        s1 == IF has_entity THEN FloatAdd(0, 300) ELSE 0
        s2 == IF has_verb THEN FloatAdd(s1, 300) ELSE s1
        s3 == IF has_condition THEN FloatAdd(s2, 100) ELSE s2
        s4 == IF has_error THEN FloatAdd(s3, 200) ELSE s3
    IN  Min(s4, 1000)

vague_adjectives ==
    << <<"hayai">>, <<"osoi">>, <<"kosoku">>, <<"okii">>, <<"chiisai">>,
       <<"ooi">>, <<"sukunai">>, <<"tekisetsu">>, <<"jubun">> >>

vague_adverbs ==
    << <<"suguni">>, <<"sumiyakani">>, <<"tekigi">>, <<"zuiji">>,
       <<"teiki", "teki">> >>

threshold_tokens ==
    << <<"=">>, <<">">>, <<"<">>, <<"ijo">>, <<"ika">> >>

RECURSIVE add_hits(_, _, _)
add_hits(score, words, t) ==
    IF words = <<>> THEN score
    ELSE add_hits(IF Contains(t, Head(words)) THEN FloatAdd(score, 200) ELSE score,
                  Tail(words), t)

(* _calculate_ambiguity without the final min(score, 1.0). *)
calculate_ambiguity_unclipped(t) ==
    LET s1 == add_hits(0, vague_adjectives, t)
        s2 == add_hits(s1, vague_adverbs, t)
    IN  IF (Contains(t, <<"baai">>) \/ Contains(t, <<"to", "ki">>))
           /\ ~AnyIn(threshold_tokens, t)
        THEN FloatAdd(s2, 300) ELSE s2

calculate_ambiguity(t) ==
    LET s1 == add_hits(0, vague_adjectives, t)
        s2 == add_hits(s1, vague_adverbs, t)
        s3 == IF (Contains(t, <<"baai">>) \/ Contains(t, <<"to", "ki">>))
                 /\ ~AnyIn(threshold_tokens, t)
              THEN FloatAdd(s2, 300) ELSE s2
    IN  Min(s3, 1000)

identify_missing_elements(t) ==
    (IF Contains(t, <<"dekiru">>) /\ ~Contains(t, <<"dekinai">>) /\ ~Contains(t, <<"era">>)
     THEN <<"error_behaviour">> ELSE <<>>)
    \o (IF AnyIn(<< <<"tsuika">>, <<"toroku">>, <<"hozon">> >>, t)
           /\ ~Contains(t, <<"sakujo">>)
        THEN <<"delete_function">> ELSE <<>>)
    \o (IF AnyIn(<< <<"deta">>, <<"joho">>, <<"atai">> >>, t)
           /\ ~AnyIn(<< <<"kata">>, <<"fomatto">>, <<"keishiki">> >>, t)
        THEN <<"data_type_format">> ELSE <<>>)

evaluate_requirements(sentences, entities) ==
    LET reqs == SelectSeq(sentences, LAMBDA s : s.type = "requirement")
    IN  [k \in 1..Len(reqs) |->
            [id |-> <<"REQ", k>>,
             text |-> reqs[k].text,
             type |-> "functional",
             completeness_score |-> calculate_completeness(reqs[k].text, entities),
             ambiguity_score |-> calculate_ambiguity(reqs[k].text),
             missing_elements |-> identify_missing_elements(reqs[k].text)]]

RECURSIVE SumSeq(_)
SumSeq(s) == IF s = <<>> THEN 0 ELSE Head(s) + SumSeq(Tail(s))

(* The decimal a code is nearest to, in thousandths. *)
Nominal(code) == ((code + 50) \div 100) * 100

(* round(total / n, 2) in hundredths, total in thousandths.  Half-way      *)
(* cases go to the even neighbour; they need n to be a multiple of 4.      *)
round2(total, n) ==
    LET den == 10 * n
        q == total \div den
        r == total % den
    IN  IF 2 * r > den THEN q + 1
        ELSE IF 2 * r < den THEN q
        ELSE IF q % 2 = 0 THEN q ELSE q + 1

calculate_statistics(sentences, entities, actions, requirements) ==
    LET n == Len(requirements)
        avg(field) ==
            IF n = 0 THEN 0
            ELSE round2(SumSeq([k \in 1..n |-> Nominal(requirements[k][field])]), n)
    IN  [total_sentences |-> Len(sentences),
         total_entities |-> Len(entities),
         total_relationships |-> 0,
         total_actions |-> Len(actions),
         avg_completeness_score |-> avg("completeness_score"),
         avg_ambiguity_score |-> avg("ambiguity_score")]

parse(content) ==
    LET sentences == extract_sentences(content)
        entities == extract_entities(content, sentences)
        actions == extract_actions(sentences, entities)
        requirements == evaluate_requirements(sentences, entities)
    IN  [original_content |-> content,
         sentences |-> sentences,
         entities |-> entities,
         actions |-> actions,
         requirements |-> requirements,
         statistics |-> calculate_statistics(sentences, entities, actions, requirements)]

-----------------------------------------------------------------------------
(* ActionTypeClassifier *)

(* The members of ActionType except UNKNOWN, in declaration order, which is *)
(* also the insertion order of ACTION_PATTERNS.                             *)
ActionTypes ==
    <<"DELETE", "CREATE", "UPDATE", "DISPLAY", "AUTHENTICATION", "EXTERNAL_API",
      "DATA_MIGRATION", "BATCH_PROCESS", "SEARCH", "NOTIFICATION", "IMPORT_EXPORT">>

ActionTypeSet == {ActionTypes[k] : k \in 1..Len(ActionTypes)}

UNKNOWN == "UNKNOWN"

keywords_DELETE ==
    << <<"sakujo">>, <<"kesu">>, <<"jokyo">>, <<"kuria">>, <<"shokyo">>,
       <<"haiki">>, <<"haki">> >>

keywords_CREATE ==
    << <<"sakusei">>, <<"tsuika">>, <<"toroku">>, <<"shin", "ki2">>,
       <<"seisei">>, <<"tsukuru">>, <<"fuyasu">> >>

keywords_UPDATE ==
    << <<"kou", "shin">>, <<"hen", "kou">>, <<"shusei">>, <<"henshu">>,
       <<"kakikae">>, <<"naosu">> >>

keywords_DISPLAY ==
    << <<"hyoji">>, <<"miru">>, <<"kakunin">>, <<"ichiran">>, <<"shosai">>,
       <<"etsuran">>, <<"byu">>, <<"gamen">> >>

keywords_AUTHENTICATION ==
    << <<"ninsho">>, <<"roguin">>, <<"roguauto">>, <<"sainin">>,
       <<"pasuwado">>, <<"tokun">> >>

keywords_EXTERNAL_API ==
    << <<"API">>, <<"renkei">>, <<"gaibu">>, <<"LINE">>, <<"Slack">>,
       <<"Twitter">>, <<"Google">>, <<"yobidashi">> >>

keywords_DATA_MIGRATION ==
    << <<"iko">>, <<"maigureshon">>, <<"deta", "ido">>, <<"inpoto">>,
       <<"henkan">> >>

keywords_BATCH_PROCESS ==
    << <<"batchi">>, <<"teiki">>, <<"ikkatsu">>, <<"yakan">>, <<"sukejuru">> >>

keywords_SEARCH ==
    << <<"kensaku">>, <<"sagasu">>, <<"firuta">>, <<"shiborikomi">>,
       <<"sachi">> >>

keywords_NOTIFICATION ==
    << <<"tsuchi">>, <<"meru">>, <<"arato">>, <<"oshirase">>, <<"soshin">> >>

keywords_IMPORT_EXPORT ==
    << <<"ekusupoto">>, <<"daunrodo">>, <<"CSV">>, <<"Excel">>, <<"inpoto">>,
       <<"appurodo">> >>

ACTION_PATTERNS ==
    [t \in ActionTypeSet |->
        CASE t = "DELETE" -> [keywords |-> keywords_DELETE, base_severity |-> "HIGH"]
          [] t = "CREATE" -> [keywords |-> keywords_CREATE, base_severity |-> "MEDIUM"]
          [] t = "UPDATE" -> [keywords |-> keywords_UPDATE, base_severity |-> "MEDIUM"]
          [] t = "DISPLAY" -> [keywords |-> keywords_DISPLAY, base_severity |-> "LOW"]
          [] t = "AUTHENTICATION" -> [keywords |-> keywords_AUTHENTICATION, base_severity |-> "CRITICAL"]
          [] t = "EXTERNAL_API" -> [keywords |-> keywords_EXTERNAL_API, base_severity |-> "HIGH"]
          [] t = "DATA_MIGRATION" -> [keywords |-> keywords_DATA_MIGRATION, base_severity |-> "HIGH"]
          [] t = "BATCH_PROCESS" -> [keywords |-> keywords_BATCH_PROCESS, base_severity |-> "MEDIUM"]
          [] t = "SEARCH" -> [keywords |-> keywords_SEARCH, base_severity |-> "MEDIUM"]
          [] t = "NOTIFICATION" -> [keywords |-> keywords_NOTIFICATION, base_severity |-> "MEDIUM"]
          [] t = "IMPORT_EXPORT" -> [keywords |-> keywords_IMPORT_EXPORT, base_severity |-> "MEDIUM"]]

(* matched_keywords that drops a keyword found more than once in the text. *)
keywords_found_once(t, action_type) ==
    SelectSeq(ACTION_PATTERNS[action_type].keywords,
              LAMBDA w : Cardinality({i \in 1..(Len(t) - Len(w) + 1) :
                                         \A k \in 1..Len(w) : t[i + k - 1] = w[k]}) = 1)

matched_keywords(t, action_type) ==
    SelectSeq(ACTION_PATTERNS[action_type].keywords, LAMBDA w : Contains(t, w))

(* scored_types without the test score > 0: every type has an entry. *)
all_types_scored(t) == ActionTypes

(* scores: one entry per type with at least one keyword in the text. *)
scored_types(t) == SelectSeq(ActionTypes, LAMBDA a : matched_keywords(t, a) # <<>>)

(* best_type with the last of the entries of maximal score, not the first. *)
last_best_type(t) ==
    LET scored == scored_types(t)
        score(a) == Len(matched_keywords(t, a))
        k == SetMax({i \in 1..Len(scored) :
                        \A j \in 1..Len(scored) : score(scored[j]) <= score(scored[i])})
    IN  scored[k]

(* max(scores.items(), key=lambda x: x[1])[0]: the first entry, in         *)
(* insertion order, whose score no other entry exceeds.                    *)
best_type(t) ==
    LET scored == scored_types(t)
        score(a) == Len(matched_keywords(t, a))
        k == SetMin({i \in 1..Len(scored) :
                        \A j \in 1..Len(scored) : score(scored[j]) <= score(scored[i])})
    IN  scored[k]

common_entities ==
    << <<"yuza", "-">>, <<"yuza">>, <<"shohin">>, <<"kato">>, <<"chumon">>,
       <<"kessai">>, <<"akaunto">>, <<"purofiru">>, <<"toko">>,
       <<"komento">>, <<"gazo">>, <<"fairu">>, <<"deta">>, <<"joho">>,
       <<"rekodo">>, <<"aitemu">> >>

classifier_extract_entities(t) == SelectSeq(common_entities, LAMBDA e : Contains(t, e))

(* min(max_score / 3.0, 1.0), in thousandths. *)
confidence_of(max_score) == Min((max_score * 1000) \div 3, 1000)

classify(t) ==
    IF scored_types(t) = <<>>
    THEN [action_type |-> UNKNOWN,
          confidence |-> 0,
          detected_entities |-> classifier_extract_entities(t),
          base_severity |-> "LOW",
          matched_keywords |-> <<>>,
          context |-> t]
    ELSE LET best == best_type(t)
         IN  [action_type |-> best,
              confidence |-> confidence_of(Len(matched_keywords(t, best))),
              detected_entities |-> classifier_extract_entities(t),
              base_severity |-> ACTION_PATTERNS[best].base_severity,
              matched_keywords |-> matched_keywords(t, best),
              context |-> t]

-----------------------------------------------------------------------------
(* CriticalityJudge.  Scores are in tenths: 50 is 5.0.  A checklist item is *)
(* a record; a key that the template leaves out holds the value that        *)
(* element.get gives for it (None for a text, "" for criticality, FALSE for *)
(* an affects flag, "implementation" for detection_phase); an absent id is  *)
(* NoId.                                                                    *)

MUST_DEFINE == "MUST_DEFINE"

SHOULD_CONFIRM == "SHOULD_CONFIRM"

CAN_DECIDE_LATER == "CAN_DECIDE_LATER"

change_cost_score(change_cost) ==
    IF Contains(change_cost, <<"2", "0", "0">>) \/ Contains(change_cost, <<"3", "0", "0">>)
    THEN 30
    ELSE IF Contains(change_cost, <<"1", "0", "0">>) THEN 25
    ELSE IF Contains(change_cost, <<"5", "0">>) \/ Contains(change_cost, <<"4", "0">>)
    THEN 20
    ELSE IF Contains(change_cost, <<"2", "0">>) \/ Contains(change_cost, <<"3", "0">>)
    THEN 15
    ELSE IF Contains(change_cost, <<"1", "0">>) THEN 10
    ELSE 5

detection_phase_score(detection_phase) ==
    IF detection_phase = "production" THEN 20
    ELSE IF detection_phase = "testing" THEN 15
    ELSE IF detection_phase = "design" THEN 10
    ELSE 0

(* override_floor that sets the score instead of raising it. *)
override_sets_score(score, criticality_str) ==
    IF criticality_str = MUST_DEFINE THEN 50
    ELSE IF criticality_str = SHOULD_CONFIRM THEN 30
    ELSE score

override_floor(score, criticality_str) ==
    IF criticality_str = MUST_DEFINE THEN Max(score, 50)
    ELSE IF criticality_str = SHOULD_CONFIRM THEN Max(score, 30)
    ELSE score

(* clip_score without the upper limit. *)
unclipped_score(score) == score

clip_score(score) == Min(score, 100)

calculate_score(e) ==
    LET s1 == (IF e.affects.data_model THEN 30 ELSE 0)
              + (IF e.affects.external_system THEN 20 ELSE 0)
              + (IF e.affects.security THEN 30 ELSE 0)
        s2 == s1 + change_cost_score(e.change_cost_if_later)
        s3 == s2 + detection_phase_score(e.detection_phase)
        s4 == override_floor(s3, e.criticality)
    IN  clip_score(s4)

(* determine_criticality without the test of the explicit criticality. *)
score_only_criticality(score, e) ==
    IF score >= 50 THEN MUST_DEFINE
    ELSE IF score >= 30 THEN SHOULD_CONFIRM
    ELSE CAN_DECIDE_LATER

determine_criticality(score, e) ==
    IF e.criticality = MUST_DEFINE THEN MUST_DEFINE
    ELSE IF e.criticality = SHOULD_CONFIRM THEN SHOULD_CONFIRM
    ELSE IF e.criticality = CAN_DECIDE_LATER THEN CAN_DECIDE_LATER
    ELSE IF score >= 50 THEN MUST_DEFINE
    ELSE IF score >= 30 THEN SHOULD_CONFIRM
    ELSE CAN_DECIDE_LATER

determine_timing(criticality) ==
    IF criticality = MUST_DEFINE THEN "before_implementation"
    ELSE IF criticality = SHOULD_CONFIRM THEN "before_design_complete"
    ELSE "during_implementation"

judge(e) ==
    LET score == calculate_score(e)
        criticality == determine_criticality(score, e)
    IN  [element_id |-> IF e.id = NoId THEN <<"unknown">> ELSE e.id,
         criticality |-> criticality,
         change_cost_if_later |-> e.change_cost_if_later,
         recommended_decision_timing |-> determine_timing(criticality),
         score |-> score,
         affects |-> e.affects]

(* load_template that finds no file for any action type. *)
load_no_template(cache, source, action_type) == <<[checklist |-> <<>>], cache>>

(* What templates_dir holds for an action type is <<>> (no file) or the one  *)
(* file; a file is a record: [yaml_error |-> TRUE] when yaml.safe_load      *)
(* raises on it, [not_a_mapping |-> TRUE] when it loads as a value without  *)
(* .get (an empty file, a list, a scalar), and else the mapping it holds.   *)
yaml_raises(file) == "yaml_error" \in DOMAIN file

is_mapping(template) == "not_a_mapping" \notin DOMAIN template

raised(template) == "raised" \in DOMAIN template

(* A template file that is absent and is opened all the same. *)
load_template_unguarded(cache, source, action_type) ==
    IF cache[action_type] # <<>> THEN <<cache[action_type][1], cache>>
    ELSE IF source[action_type] = <<>> \/ yaml_raises(source[action_type][1])
    THEN <<[raised |-> "error"], cache>>
    ELSE <<source[action_type][1], [cache EXCEPT ![action_type] = source[action_type]]>>

(* A template that is read again on every call. *)
load_template_uncached(cache, source, action_type) ==
    IF source[action_type] = <<>> THEN <<[checklist |-> <<>>], cache>>
    ELSE IF yaml_raises(source[action_type][1]) THEN <<[raised |-> "error"], cache>>
    ELSE <<source[action_type][1], cache>>

(* load_template: <<template returned, cache afterwards>>; the template is  *)
(* [raised |-> ...] when the call raises.  cache[a] is <<>> when the cache  *)
(* has no entry for a, and else holds the one loaded template.              *)
load_template(cache, source, action_type) ==
    IF cache[action_type] # <<>> THEN <<cache[action_type][1], cache>>
    ELSE IF source[action_type] = <<>> THEN <<[checklist |-> <<>>], cache>>
    ELSE IF yaml_raises(source[action_type][1]) THEN <<[raised |-> "error"], cache>>
    ELSE <<source[action_type][1], [cache EXCEPT ![action_type] = source[action_type]]>>

(* True when load_template goes to templates_dir (exists, open) to answer. *)
reads_source(cache, action_type) == cache[action_type] = <<>>

(* get_checklist_for_action_type: the checklist, or "raised" when           *)
(* load_template raises or the template has no .get; and the cache          *)
(* afterwards.                                                              *)
get_checklist_for_action_type(cache, source, action_type) ==
    LET loaded == load_template(cache, source, action_type)
        template == loaded[1]
    IN  IF raised(template) \/ ~is_mapping(template)
        THEN [outcome |-> "raised", checklist |-> <<>>, cache |-> loaded[2]]
        ELSE [outcome |-> "ok",
              checklist |-> IF "checklist" \in DOMAIN template THEN template.checklist
                            ELSE <<>>,
              cache |-> loaded[2]]

-----------------------------------------------------------------------------
(* QuestionGenerator *)

question_templates ==
    {"delete_method", "cascade_delete", "api_timeout", "api_fallback",
     "authentication_method", "token_storage"}

(* _format_template with the context extract builds: it has the key         *)
(* "entity" and neither "api_name" nor "related_entities", so only the      *)
(* {entity} placeholder is replaced.                                        *)
format_template(template, context) == <<"template", template, context.entity>>

suggest_stakeholder(e) ==
    IF e.affects.security THEN "security_team"
    ELSE IF e.affects.data_model THEN "product_owner_architect"
    ELSE IF e.affects.external_system THEN "integration_infra"
    ELSE IF e.criticality = MUST_DEFINE THEN "product_owner_manager"
    ELSE IF e.criticality = SHOULD_CONFIRM THEN "product_owner"
    ELSE "team"

generate(e, context) ==
    [element_id |-> e.id,
     title |-> e.title,
     question |-> IF e.question_template # None
                  THEN format_template(e.question_template, context)
                  ELSE IF e.question_template_key # None
                          /\ e.question_template_key \in question_templates
                  THEN format_template(e.question_template_key, context)
                  ELSE <<"plain", e.question>>,
     options |-> e.options,
     who_to_ask |-> suggest_stakeholder(e),
     examples |-> e.examples]

-----------------------------------------------------------------------------
(* UndefinedExtractor.  Confidence is in thousandths.  Categories:          *)
(*   data_definition_missing   データ定義の欠落                              *)
(*   behaviour_ambiguity       振る舞いの曖昧さ                              *)
(*   error_handling_missing    エラーハンドリングの欠落                      *)
(*   nonfunctional_ambiguity   非機能要件の曖昧さ                            *)
(*   action_type_specific      処理タイプ固有の確認事項                      *)

CAT_DATA == "data_definition_missing"

CAT_BEHAVIOUR == "behaviour_ambiguity"

CAT_ERROR == "error_handling_missing"

CAT_NONFUNCTIONAL == "nonfunctional_ambiguity"

CAT_DEFAULT == "action_type_specific"

Priorities == {"low", "medium", "high", "critical"}

DetectionMethods ==
    {"pattern_matching", "semantic_analysis", "rule_based", "ml_model", "template_driven"}

(* vague_patterns, flattened in the iteration order of the dict. *)
vague_patterns ==
    << [category |-> CAT_NONFUNCTIONAL, subcategory |-> "performance", words |->
        << <<"hayai">>, <<"osoi">>, <<"kosoku">>, <<"teisoku">> >>],
       [category |-> CAT_NONFUNCTIONAL, subcategory |-> "boundary", words |->
        << <<"okii">>, <<"chiisai">>, <<"ooi">>, <<"sukunai">>,
           <<"tekisetsu">>, <<"jubun">> >>],
       [category |-> CAT_NONFUNCTIONAL, subcategory |-> "security", words |->
        << <<"anzen">>, <<"sekyua">> >>],
       [category |-> CAT_BEHAVIOUR, subcategory |-> "timing", words |->
        << <<"suguni">>, <<"sumiyakani">>, <<"tekigi">>, <<"zuiji">>,
           <<"teiki", "teki">> >>],
       [category |-> CAT_BEHAVIOUR, subcategory |-> "execution_condition", words |->
        << <<"baai">>, <<"to", "ki">>, <<"sai">> >>] >>

(* _identify_ambiguity_type that lets the last matching pattern decide. *)
identify_last_ambiguity_type(t) ==
    LET hit == SelectSeq(vague_patterns, LAMBDA p : AnyIn(p.words, t))
    IN  IF hit = <<>> THEN <<CAT_NONFUNCTIONAL, "performance">>
        ELSE <<hit[Len(hit)].category, hit[Len(hit)].subcategory>>

identify_ambiguity_type(t) ==
    LET hit == SelectSeq(vague_patterns, LAMBDA p : AnyIn(p.words, t))
    IN  IF hit = <<>> THEN <<CAT_NONFUNCTIONAL, "performance">>
        ELSE <<Head(hit).category, Head(hit).subcategory>>

generate_ambiguity_title(t) ==
    IF Contains(t, <<"hayai">>) \/ Contains(t, <<"kosoku">>)
    THEN <<"fast_criterion_unclear">>
    ELSE IF Contains(t, <<"anzen">>) \/ Contains(t, <<"sekyua">>)
    THEN <<"safe_measures_unclear">>
    ELSE IF Contains(t, <<"baai">>) \/ Contains(t, <<"to", "ki">>)
    THEN <<"execution_condition_unclear">>
    ELSE <<"requirement_ambiguous">>

generate_questions_for_ambiguity(t) ==
    IF Contains(t, <<"hayai">>) \/ Contains(t, <<"kosoku">>)
    THEN << [text |-> <<"response_time_target">>, type |-> "specification"],
            [text |-> <<"concurrent_access_count">>, type |-> "specification"] >>
    ELSE IF Contains(t, <<"anzen">>) \/ Contains(t, <<"sekyua">>)
    THEN << [text |-> <<"security_measures">>, type |-> "specification"],
            [text |-> <<"authentication_authorization_method">>, type |-> "specification"] >>
    ELSE << [text |-> <<"concrete_criteria_or_numbers">>, type |-> "clarification"] >>

get_entity_context(entity, parsed_req) ==
    LET sents == IF entity.mentions = <<>> THEN <<>>
                 ELSE SelectSeq(parsed_req.sentences,
                                LAMBDA snt : snt.id = Head(entity.mentions))
    IN  IF sents # <<>>
        THEN [source_text |-> entity.name, sentence_id |-> Head(sents).id,
              line_number |-> Head(sents).line_number]
        ELSE [source_text |-> entity.name, sentence_id |-> NoId, line_number |-> 1]

get_action_context(action, parsed_req) ==
    LET sents == SelectSeq(parsed_req.sentences, LAMBDA snt : Contains(snt.text, action.verb))
    IN  IF sents # <<>>
        THEN [source_text |-> action.verb, sentence_id |-> Head(sents).id,
              line_number |-> Head(sents).line_number]
        ELSE [source_text |-> action.verb, sentence_id |-> NoId, line_number |-> 1]

(* A finding before its id is settled: item_id is the id the checklist item *)
(* brings, NoId when the id comes from _generate_id.  related is the        *)
(* related entity, action or requirement; criticality_info is <<>> or holds *)
(* the one dict.                                                            *)
Finding(item_id, category, subcategory, related, title, questions, method, confidence, context, severity, criticality_info) ==
    [item_id |-> item_id, category |-> category, subcategory |-> subcategory,
     related |-> related, title |-> title, questions |-> questions,
     detection |-> [method |-> method, confidence |-> confidence],
     context |-> context, estimated_severity |-> severity,
     criticality_info |-> criticality_info]

priority_of(criticality) ==
    IF criticality = MUST_DEFINE THEN "critical"
    ELSE IF criticality = SHOULD_CONFIRM THEN "high"
    ELSE "medium"

(* Question rejects suggested_answers=None, which is what the conversion    *)
(* passes for an item without options.                                      *)
question_schema_accepts(practical_question) == practical_question.options # <<>>

convert_to_undefined_element(item, criticality_result, practical_question) ==
    Finding(item.id,
            IF item.category = None THEN CAT_DEFAULT ELSE item.category,
            item.title,
            NoId,
            <<"checklist", practical_question.title>>,
            <<[text |-> practical_question.question, type |-> "specification"]>>
                \o [k \in 1..Len(practical_question.examples) |->
                       [text |-> <<"example", practical_question.examples[k]>>,
                        type |-> "clarification"]],
            "template_driven",
            criticality_result.score * 10,
            [source_text |-> <<"content">>, sentence_id |-> NoId, line_number |-> 1],
            priority_of(criticality_result.criticality),
            <<[level |-> criticality_result.criticality,
               change_cost |-> criticality_result.change_cost_if_later,
               timing |-> criticality_result.recommended_decision_timing,
               who_to_ask |-> practical_question.who_to_ask]>>)

checklist_context(classification) ==
    [entity |-> IF classification.detected_entities # <<>>
                THEN Head(classification.detected_entities) ELSE <<"taisho">>,
     action_type |-> classification.action_type]

extract_from_checklist(checklist_items, classification) ==
    [k \in 1..Len(checklist_items) |->
        convert_to_undefined_element(
            checklist_items[k],
            judge(checklist_items[k]),
            generate(checklist_items[k], checklist_context(classification)))]

checklist_raises(checklist_items, classification) ==
    \E k \in 1..Len(checklist_items) :
        ~question_schema_accepts(generate(checklist_items[k],
                                          checklist_context(classification)))

(* extract_from_entity that reports nothing. *)
skip_entity(entity, parsed_req) == <<>>

extract_from_entity(entity, parsed_req) ==
    (IF entity.definition_status = "undefined"
     THEN <<Finding(NoId, CAT_DATA, "type_definition", entity.id,
                    <<"definition_unclear", entity.name>>,
                    << [text |-> <<"data_type_of", entity.name>>, type |-> "specification"],
                       [text |-> <<"constraints_of", entity.name>>, type |-> "constraint"] >>,
                    "rule_based", 850, get_entity_context(entity, parsed_req),
                    "medium", <<>>)>>
     ELSE <<>>)
    \o LET attrs == SelectSeq(entity.attributes, LAMBDA a : a.mentioned /\ ~a.defined)
       IN  [k \in 1..Len(attrs) |->
               Finding(NoId, CAT_DATA, "constraint", entity.id,
                       <<"attribute_unspecified", entity.name, attrs[k].name>>,
                       << [text |-> <<"data_type_of", attrs[k].name>>,
                           type |-> "specification"],
                          [text |-> <<"min_max_of", attrs[k].name>>, type |-> "constraint"] >>,
                       "rule_based", 900, get_entity_context(entity, parsed_req),
                       "medium", <<>>)]

(* suppress_error_handling that never suppresses. *)
never_suppress(classification) == FALSE

(* extract always hands a classification over, so the test on it is TRUE. *)
suppress_error_handling(classification) == classification.action_type # UNKNOWN

(* _extract_from_action that reports the preconditions, like the error     *)
(* handling, only when the category is not known.                          *)
extract_from_action_unknown_only(action, parsed_req, classification) ==
    IF suppress_error_handling(classification) THEN <<>>
    ELSE LET conds == SelectSeq(action.preconditions, LAMBDA c : c.ambiguous)
         IN  [k \in 1..Len(conds) |->
                 Finding(NoId, CAT_BEHAVIOUR, "execution_condition", action.id,
                         <<"execution_condition_ambiguous", action.verb>>,
                         << [text |-> <<"how_to_judge", conds[k].description>>,
                             type |-> "clarification"],
                            [text |-> <<"realtime_or_cache">>, type |-> "specification"] >>,
                         "semantic_analysis", 850, get_action_context(action, parsed_req),
                         "high", <<>>)]
             \o (IF ~action.error_handling.defined
                 THEN <<Finding(NoId, CAT_ERROR, "user_feedback", action.id,
                                IF action.verb = <<"shori">>
                                THEN <<"error_handling_undefined_for_action", action.id>>
                                ELSE <<"error_handling_undefined", action.verb>>,
                                << [text |-> <<"behaviour_on_failure", action.verb>>,
                                    type |-> "exception"],
                                   [text |-> <<"user_feedback_on_error">>,
                                    type |-> "clarification"] >>,
                                "rule_based", 800, get_action_context(action, parsed_req),
                                "medium", <<>>)>>
                 ELSE <<>>)

extract_from_action(action, parsed_req, classification) ==
    LET conds == SelectSeq(action.preconditions, LAMBDA c : c.ambiguous)
    IN  [k \in 1..Len(conds) |->
            Finding(NoId, CAT_BEHAVIOUR, "execution_condition", action.id,
                    <<"execution_condition_ambiguous", action.verb>>,
                    << [text |-> <<"how_to_judge", conds[k].description>>,
                        type |-> "clarification"],
                       [text |-> <<"realtime_or_cache">>, type |-> "specification"] >>,
                    "semantic_analysis", 850, get_action_context(action, parsed_req),
                    "high", <<>>)]
        \o (IF ~action.error_handling.defined /\ ~suppress_error_handling(classification)
            THEN <<Finding(NoId, CAT_ERROR, "user_feedback", action.id,
                           IF action.verb = <<"shori">>
                           THEN <<"error_handling_undefined_for_action", action.id>>
                           ELSE <<"error_handling_undefined", action.verb>>,
                           << [text |-> <<"behaviour_on_failure", action.verb>>,
                               type |-> "exception"],
                              [text |-> <<"user_feedback_on_error">>,
                               type |-> "clarification"] >>,
                           "rule_based", 800, get_action_context(action, parsed_req),
                           "medium", <<>>)>>
            ELSE <<>>)

ambiguity_threshold_exceeded(ambiguity_score) == ambiguity_score > 600

extract_from_requirement(requirement) ==
    IF ambiguity_threshold_exceeded(requirement.ambiguity_score)
    THEN <<Finding(NoId,
                   identify_ambiguity_type(requirement.text)[1],
                   identify_ambiguity_type(requirement.text)[2],
                   requirement.id,
                   generate_ambiguity_title(requirement.text),
                   generate_questions_for_ambiguity(requirement.text),
                   "pattern_matching", 750,
                   [source_text |-> requirement.text, sentence_id |-> NoId, line_number |-> 1],
                   "medium", <<>>)>>
    ELSE <<>>

(* _calculate_statistics whose "high" starts above 0.8 instead of at it. *)
statistics_high_above(elements) ==
    LET idx == 1..Len(elements)
        cats == {elements[k].category : k \in idx}
        sevs == {elements[k].estimated_severity : k \in idx}
        conf(k) == elements[k].detection.confidence
    IN  [total_undefined |-> Len(elements),
         by_category |-> [c \in cats |-> Cardinality({k \in idx : elements[k].category = c})],
         by_confidence |->
             [high |-> Cardinality({k \in idx : conf(k) > 800}),
              medium |-> Cardinality({k \in idx : conf(k) < 800 /\ conf(k) >= 600}),
              low |-> Cardinality({k \in idx : conf(k) < 600})],
         by_severity |->
             [v \in sevs |-> Cardinality({k \in idx : elements[k].estimated_severity = v})]]

extractor_calculate_statistics(elements) ==
    LET idx == 1..Len(elements)
        cats == {elements[k].category : k \in idx}
        sevs == {elements[k].estimated_severity : k \in idx}
        conf(k) == elements[k].detection.confidence
    IN  [total_undefined |-> Len(elements),
         by_category |-> [c \in cats |-> Cardinality({k \in idx : elements[k].category = c})],
         by_confidence |->
             [high |-> Cardinality({k \in idx : conf(k) >= 800}),
              medium |-> Cardinality({k \in idx : conf(k) < 800 /\ conf(k) >= 600}),
              low |-> Cardinality({k \in idx : conf(k) < 600})],
         by_severity |->
             [v \in sevs |-> Cardinality({k \in idx : elements[k].estimated_severity = v})]]

(* critical_gaps without the limit of five. *)
all_gap_titles(elements) ==
    LET gaps == SelectSeq(elements, LAMBDA e : e.estimated_severity \in {"high", "critical"})
    IN  [k \in 1..Len(gaps) |-> gaps[k].title]

critical_gaps_of(elements) ==
    LET gaps == SelectSeq(elements, LAMBDA e : e.estimated_severity \in {"high", "critical"})
        critical_gaps == [k \in 1..Len(gaps) |-> gaps[k].title]
    IN  SubSeq(critical_gaps, 1, Min(5, Len(critical_gaps)))

(* recommendations with the completeness rule applied first. *)
recommendations_completeness_first(parsed_req, elements) ==
    LET error_handling_count == Len(SelectSeq(elements, LAMBDA e : e.category = CAT_ERROR))
    IN  (IF parsed_req.statistics.avg_completeness_score < 50
         THEN <<<<"clarify_overall">>>> ELSE <<>>)
        \o (IF parsed_req.statistics.avg_ambiguity_score > 60
            THEN <<<<"quantify_nonfunctional">>>> ELSE <<>>)
        \o (IF error_handling_count > 0
            THEN <<<<"error_handling_missing_at", error_handling_count>>>> ELSE <<>>)

recommendations_of(parsed_req, elements) ==
    LET overall_completeness == parsed_req.statistics.avg_completeness_score
        error_handling_count == Len(SelectSeq(elements, LAMBDA e : e.category = CAT_ERROR))
    IN  (IF parsed_req.statistics.avg_ambiguity_score > 60
         THEN <<<<"quantify_nonfunctional">>>> ELSE <<>>)
        \o (IF error_handling_count > 0
            THEN <<<<"error_handling_missing_at", error_handling_count>>>> ELSE <<>>)
        \o (IF overall_completeness < 50 THEN <<<<"clarify_overall">>>> ELSE <<>>)

perform_meta_analysis(parsed_req, elements) ==
    [overall_completeness |-> parsed_req.statistics.avg_completeness_score,
     critical_gaps |-> critical_gaps_of(elements),
     recommendations |-> recommendations_of(parsed_req, elements)]

(* uuid.uuid4().hex[:8]: the k-th value drawn in the run of the generator   *)
(* that seed identifies.                                                    *)
generate_id(seed, k) == <<"UE", seed, k>>

(* Every finding is built with exactly one call of _generate_id (a          *)
(* checklist finding keeps its item's id when the item has one), so the     *)
(* k-th finding of a call of extract holds the k-th value drawn.            *)
assign_ids(findings, seed) ==
    [k \in 1..Len(findings) |->
        [id |-> IF findings[k].item_id # NoId THEN findings[k].item_id
                ELSE generate_id(seed, k)] @@ findings[k]]

(* extract: the classification, the outcome ("ok", or "raised" when a       *)
(* schema constructor rejects its arguments), the output and the cache it   *)
(* leaves.                                                                  *)
extract(parsed_req, cache, source, seed) ==
    LET classification == classify(parsed_req.original_content)
        known == classification.action_type # UNKNOWN
        loaded == IF known
                  THEN get_checklist_for_action_type(cache, source,
                                                     classification.action_type)
                  ELSE [outcome |-> "ok", checklist |-> <<>>, cache |-> cache]
        items == loaded.checklist
        findings ==
            extract_from_checklist(items, classification)
            \o Flatten([k \in 1..Len(parsed_req.entities) |->
                           extract_from_entity(parsed_req.entities[k], parsed_req)])
            \o Flatten([k \in 1..Len(parsed_req.actions) |->
                           extract_from_action(parsed_req.actions[k], parsed_req,
                                               classification)])
            \o Flatten([k \in 1..Len(parsed_req.requirements) |->
                           extract_from_requirement(parsed_req.requirements[k])])
        elements == assign_ids(findings, seed)
    IN  IF loaded.outcome = "raised" \/ checklist_raises(items, classification)
        THEN [outcome |-> "raised", classification |-> classification,
              cache |-> loaded.cache]
        ELSE [outcome |-> "ok",
              classification |-> classification,
              undefined_elements |-> elements,
              statistics |-> extractor_calculate_statistics(elements),
              meta_analysis |-> perform_meta_analysis(parsed_req, elements),
              cache |-> loaded.cache]

(* UndefinedExtractor(...): __init__ takes self only, so a call with       *)
(* a keyword argument raises TypeError.  kwargs is the set of               *)
(* <<name, value>> passed.                                                  *)
init_keywords == {}

extractor_init(kwargs) ==
    [outcome |-> IF {kw[1] : kw \in kwargs} \subseteq init_keywords
                 THEN "constructed" ELSE "raised",
     kwargs |-> kwargs]

-----------------------------------------------------------------------------
(* LLMUnknownTermDetector.  A response is parseable as JSON or not, and     *)
(* holds the list under "unknown_terms"; a term carries the confidence the  *)
(* model returned.                                                          *)

(* detection_info_accepts with method a free-form str. *)
accepts_any_method(method) == TRUE

detection_info_accepts(method) == method \in DetectionMethods

llm_priority(confidence) ==
    IF confidence >= 900 THEN "high"
    ELSE IF confidence >= 700 THEN "medium"
    ELSE "low"

llm_detection_method == "llm"

llm_convert_to_undefined_element(term_data, seed, k) ==
    [id |-> <<"LLM", seed, k>>,
     category |-> "unknown_term",
     subcategory |-> "definition_missing",
     title |-> <<"definition_unknown", term_data.term>>,
     detection |-> [method |-> llm_detection_method, confidence |-> term_data.confidence],
     estimated_severity |-> llm_priority(term_data.confidence)]

detect_unknown_terms(response, seed) ==
    IF ~response.parseable THEN [outcome |-> "ok", elements |-> <<>>]
    ELSE LET terms == response.unknown_terms
             elements == [k \in 1..Len(terms) |->
                             llm_convert_to_undefined_element(terms[k], seed, k)]
         IN  IF \E k \in 1..Len(elements) :
                    ~detection_info_accepts(elements[k].detection.method)
             THEN [outcome |-> "raised", elements |-> <<>>]
             ELSE [outcome |-> "ok", elements |-> elements]

(* Money is counted in units of $0.005, the price of 1000 input tokens,    *)
(* and tokens in thousands.                                                *)
price_per_1k_input == 1

price_per_1k_output == 3

(* LLMUnknownTermDetector(api_key, max_cost=...): the counters, and for    *)
(* the properties the calls made (attempts), the requests sent, the        *)
(* responses received and how the last call ended.                         *)
detector_init(max_cost) ==
    [max_cost |-> max_cost, total_cost |-> 0, call_count |-> 0, requests |-> 0,
     responses |-> 0, attempts |-> 0, last |-> "none"]

request_cost(input_tokens, output_tokens) ==
    input_tokens * price_per_1k_input + output_tokens * price_per_1k_output

(* The budget test with > in the place of >=. *)
over_budget_strict(d) == d.total_cost > d.max_cost

over_budget(d) == d.total_cost >= d.max_cost

(* One call of detect_unknown_terms on the detector d.  api is what the    *)
(* request does: it raises (failed), or it returns a response with its     *)
(* token usage.                                                            *)
detect_unknown_terms_call(d, api, seed) ==
    IF over_budget(d)
    THEN [d EXCEPT !.attempts = @ + 1, !.last = "refused"]
    ELSE IF api.failed
    THEN [d EXCEPT !.attempts = @ + 1, !.requests = @ + 1, !.last = "request_failed"]
    ELSE [d EXCEPT !.attempts = @ + 1, !.requests = @ + 1, !.responses = @ + 1,
                   !.total_cost = @ + request_cost(api.input_tokens, api.output_tokens),
                   !.call_count = @ + 1,
                   !.last = IF ~api.response.parseable THEN "unparseable"
                            ELSE IF detect_unknown_terms(api.response, seed).outcome = "raised"
                            THEN "conversion_raised"
                            ELSE "returned"]

-----------------------------------------------------------------------------
(* Inputs *)

MaxSegLen == 4

MaxActChunks == 3

MaxEntLen == 3

MaxKwLen == 3

MaxAmbLen == 3

MaxPadding == 1

MaxCostLen == 3

MaxTerms == 2

MaxCalls == 3

NumCallers == 2

MaxTypeLen == 3

MaxBudget == 4

MaxKiloTokens == 2

MaxAttempts == 4

NumSeeds == 2

Seeds == 1..NumSeeds

RECURSIVE SeqsUpTo(_, _)
SeqsUpTo(S, n) ==
    IF n = 0 THEN {<<>>}
    ELSE LET shorter == SeqsUpTo(S, n - 1)
         IN  shorter \cup {Append(q, x) : q \in {r \in shorter : Len(r) = n - 1}, x \in S}

(* Documents made of up to n of the given chunks. *)
DocsOf(chunks, n) == {Flatten(cs) : cs \in SeqsUpTo(chunks, n)}

SegDocs == DocsOf({<<"\n">>, <<" ">>, <<"#">>, <<".">>, <<"kino">>}, MaxSegLen)

ActDocs ==
    DocsOf({<<"yuza", "wo", "kino", "suru">>, <<"shohin", "wo", "sakujo", "suru">>,
            <<"yuza", "ha", "shohin", "wo", "kino", "dekiru">>, <<"era", "no", "baai">>,
            <<".">>}, MaxActChunks)

EntDocs == DocsOf({<<"yuza">>, <<"-">>, <<"shohin">>, <<"\n">>, <<"#">>}, MaxEntLen)

KwDocs ==
    DocsOf({<<"sakujo">>, <<"kesu">>, <<"tsukuru">>, <<"tsuika">>, <<"inpoto">>}, MaxKwLen)

(* Requirements ("... suru") with up to MaxAmbLen vague words. *)
AmbDocs ==
    {d \o <<"suru">> :
        d \in DocsOf({<<"kosoku">>, <<"hayai">>, <<"suguni">>, <<"baai">>}, MaxAmbLen)}

(* Up to three sentences, each an action without error handling or a       *)
(* requirement of five vague words, with an entity or without.             *)
MetaDocs ==
    {Flatten(cs) :
        cs \in [1..3 -> {<<"yuza", "wo", "kino", "suru", ".">>,
                         <<"kosoku", "hayai", "suguni", "osoi", "okii", "suru", ".">>,
                         <<"yuza", "ga", "kosoku", "hayai", "suguni", "osoi", "okii", "suru",
                           ".">>,
                         <<>>}]}

(* A deletion under an ambiguous condition. *)
GapDocs == {<<"shohin", "wo", "sakujo", "suru", "era", "no", "baai">>}

(* Sentences made of cues of the three cue lists and of a word of none. *)
TypeDocs ==
    DocsOf({<<"dekiru">>, <<"to", "suru">>, <<"ko", "to">>, <<"hitsuyo">>, <<"tatoeba">>,
            <<"nado">>, <<"kino">>, <<".">>}, MaxTypeLen)

(* Requirements that hold any of a performance word, a boundary word, a    *)
(* security word, two timing words and a condition word, in the order of   *)
(* the patterns or in the opposite order.                                  *)
AmbTypeDocs ==
    UNION {{a \o b \o c \o d \o e \o <<"suru">>, e \o d \o c \o b \o a \o <<"suru">>} :
              a \in {<<>>, <<"kosoku">>}, b \in {<<>>, <<"okii">>},
              c \in {<<>>, <<"anzen">>}, d \in {<<>>, <<"suguni", "sumiyakani">>},
              e \in {<<>>, <<"baai">>}}

(* A requirement that holds any of three vague adjectives (the first once  *)
(* or twice), two vague adverbs, a conditional clause, a threshold token,  *)
(* an entity and an error word, after nothing or after a sentence that     *)
(* names another entity.                                                   *)
ScoreDocs ==
    {pre \o a \o b \o c \o d \o e \o f \o g \o h \o i \o v :
        pre \in {<<>>, <<"shohin", ".">>},
        a \in {<<>>, <<"kosoku">>, <<"kosoku", "kosoku">>},
        b \in {<<>>, <<"hayai">>}, c \in {<<>>, <<"okii">>},
        d \in {<<>>, <<"suguni">>}, e \in {<<>>, <<"tekigi">>},
        f \in {<<>>, <<"baai">>, <<"to", "ki">>}, g \in {<<>>, <<"ijo">>},
        h \in {<<>>, <<"yuza">>}, i \in {<<>>, <<"era">>},
        v \in {<<"suru">>, <<"kano">>}}

(* One or two action sentences, each under any of the three condition      *)
(* markers; the deletion is of a known category, the other is not.        *)
CondDocs ==
    {act \o b \o t \o s \o more :
        act \in {<<"yuza", "wo", "kino", "suru">>, <<"shohin", "wo", "sakujo", "suru">>},
        b \in {<<>>, <<"era", "no", "baai">>}, t \in {<<>>, <<"shippai", "no", "to", "ki">>},
        s \in {<<>>, <<"kino", "no", "sai">>},
        more \in {<<>>, <<".", "yuza", "wo", "kino", "suru", "kino", "no", "baai">>,
                  <<".", "yuza", "wo", "kino", "suru">>}}

Padding == SeqsUpTo({"\n", " "}, MaxPadding)

(* "build a feature to delete the user" (quick_test.py) and its like. *)
ScenarioADocs ==
    {pre \o e \o <<"wo", "sakujo", "suru", "kino", "wo", "tsukuru">> \o post :
        pre \in Padding, post \in Padding,
        e \in {<<"yuza", "-">>, <<"yuza">>, <<"shohin">>, <<"akaunto">>}}

(* "shall operate fast", and no numeric threshold in the text. *)
ScenarioBDocs ==
    {pre \o <<fast, "ni", "dosa", "suru", "ko", "to">> \o post :
        pre \in Padding, post \in Padding, fast \in {"kosoku", "hayai"}}

DetectDocs == {<<fast, "ni", "dosa", "suru", "ko", "to">> : fast \in {"kosoku", "hayai"}}

NoAffects == [data_model |-> FALSE, external_system |-> FALSE, security |-> FALSE]

AllAffects == [data_model |-> TRUE, external_system |-> TRUE, security |-> TRUE]

Item(id, title, criticality, affects, change_cost, phase, key, options) ==
    [id |-> id, title |-> title, category |-> None, criticality |-> criticality,
     affects |-> affects, change_cost_if_later |-> change_cost,
     detection_phase |-> phase, question |-> "question",
     question_template |-> None, question_template_key |-> key,
     options |-> options, examples |-> <<>>]

(* templates/action_checklists/delete.yaml: the deletion-method choice and  *)
(* the cascade-deletion scope.                                              *)
delete_template ==
    [checklist |->
        << Item(<<"DEL", 1>>, "delete_method", MUST_DEFINE,
                [NoAffects EXCEPT !.data_model = TRUE], <<"2", "0", "0">>, "production",
                "delete_method", <<"logical", "physical">>),
           Item(<<"DEL", 2>>, "cascade_delete", SHOULD_CONFIRM,
                [NoAffects EXCEPT !.data_model = TRUE], <<"5", "0">>, "testing",
                "cascade_delete", <<"cascade", "keep", "anonymise", "ask_user">>) >>]

varied_template ==
    [checklist |->
        << Item(NoId, "heavy", "", AllAffects, <<"3", "0", "0">>, "production",
                None, <<"a", "b">>),
           Item(<<"CHK", 2>>, "light", CAN_DECIDE_LATER, NoAffects, <<>>, "implementation",
                "api_timeout", <<"a">>) >>]

optionless_template ==
    [checklist |-> << Item(<<"CHK", 3>>, "bare", "", NoAffects, <<"1", "0">>, "design",
                           None, <<>>) >>]

(* A template whose items hold options and none of the other keys. *)
fieldless_template ==
    [checklist |->
        << [Item(NoId, "", "", NoAffects, <<>>, "implementation", None, <<"a">>)
               EXCEPT !.question = ""] >>]

(* A template that is a mapping without the key "checklist". *)
keyless_template == [version |-> "1"]

scalar_template == [not_a_mapping |-> TRUE]

unparseable_template == [yaml_error |-> TRUE]

(* A checklist of six items that must be defined or should be confirmed. *)
long_template ==
    [checklist |->
        [k \in 1..6 |->
            Item(<<"CHK", 10 + k>>, <<"gap1", "gap2", "gap3", "gap4", "gap5", "gap6">>[k],
                 IF k % 2 = 1 THEN SHOULD_CONFIRM ELSE MUST_DEFINE,
                 NoAffects, <<>>, "implementation", None, <<"a">>)]]

NoTemplates == [a \in ActionTypeSet |-> <<>>]

LongTemplates == [NoTemplates EXCEPT !["DELETE"] = <<long_template>>]

MalformedTemplates ==
    {[NoTemplates EXCEPT !["DELETE"] = <<t>>] :
        t \in {fieldless_template, keyless_template, scalar_template,
               unparseable_template}}

RepoTemplates == [NoTemplates EXCEPT !["DELETE"] = <<delete_template>>]

VariedTemplates == [a \in ActionTypeSet |-> <<varied_template>>]

OptionlessTemplates == [NoTemplates EXCEPT !["DELETE"] = <<optionless_template>>]

(* What a caller does: the document, the templates on disk, and the entry   *)
(* point it calls ("start": parse and extract, "detect": the detector).     *)
InitCases ==
    (SegDocs \X {NoTemplates} \X {"start"})
    \cup (ActDocs \X {VariedTemplates} \X {"start"})
    \cup (EntDocs \X {NoTemplates} \X {"start"})
    \cup (KwDocs \X {RepoTemplates} \X {"start"})
    \cup (AmbDocs \X {NoTemplates} \X {"start"})
    \cup (ScenarioADocs
            \X ({NoTemplates, RepoTemplates, VariedTemplates, OptionlessTemplates,
                  LongTemplates}
                    \cup MalformedTemplates)
            \X {"start"})
    \cup (ScenarioBDocs \X {NoTemplates, RepoTemplates} \X {"start"})
    \cup (MetaDocs \X {NoTemplates} \X {"start"})
    \cup (GapDocs \X {LongTemplates} \X {"start"})
    \cup (AmbTypeDocs \X {NoTemplates} \X {"start"})
    \cup (CondDocs \X {NoTemplates, RepoTemplates} \X {"start"})
    \cup (DetectDocs \X {NoTemplates} \X {"detect"})

Responses ==
    {[parseable |-> FALSE, unknown_terms |-> <<>>]}
    \cup {[parseable |-> TRUE, unknown_terms |-> ts] :
             ts \in SeqsUpTo({[term |-> "t", confidence |-> c] : c \in {500, 950, 1500}},
                             MaxTerms)}

CostTexts == SeqsUpTo({"0", "1", "2", "3", "5"}, MaxCostLen)

Items ==
    {Item(NoId, "item", c, [data_model |-> d, external_system |-> x, security |-> y],
          cost, ph, None, <<"a">>) :
        c \in {"", MUST_DEFINE, SHOULD_CONFIRM, CAN_DECIDE_LATER, "other"},
        d \in BOOLEAN, x \in BOOLEAN, y \in BOOLEAN,
        cost \in CostTexts,
        ph \in {"production", "testing", "design", "implementation"}}

-----------------------------------------------------------------------------
(* The analysis of one document: parse, extract, extract once more on the   *)
(* same ParsedRequirement; and, on its own, the model-backed detector.      *)

(* No detector is constructed when use_llm is not asked for. *)
NoDetector == [max_cost |-> 0, total_cost |-> 0, call_count |-> 0, requests |-> 0,
               responses |-> 0, attempts |-> 0, last |-> "none"]

(* The values the variables hold before the call that sets them. *)
NoParse == parse(<<>>)

NoResult == [outcome |-> "none"]

NoElement == Item(NoId, "none", "", NoAffects, <<>>, "implementation", None, <<>>)

NoJudged == [element_id |-> NoId]

Init ==
    /\ \E c \in InitCases : text = c[1] /\ templates = c[2] /\ pc = c[3]
    /\ parsed = NoParse
    /\ templates_cache = [a \in ActionTypeSet |-> <<>>]
    /\ result = NoResult
    /\ result2 = NoResult
    /\ element = NoElement
    /\ judged = NoJudged
    /\ llm_response = [parseable |-> FALSE, unknown_terms |-> <<>>]
    /\ llm_out = [outcome |-> "none", elements |-> <<>>]
    /\ calls = <<>>
    /\ extractor = extractor_init({})
    /\ callers = <<>>
    /\ detector = NoDetector

Parse ==
    /\ pc = "start"
    /\ parsed' = parse(text)
    /\ pc' = "parsed"
    /\ UNCHANGED <<callers, detector, extractor, calls, text, templates,
                   templates_cache, result, result2, element, judged,
                   llm_response, llm_out>>

Extract ==
    /\ pc = "parsed"
    /\ \E seed \in Seeds :
          LET out == extract(parsed, templates_cache, templates, seed)
          IN  /\ result' = out
              /\ templates_cache' = out.cache
    /\ pc' = "extracted"
    /\ UNCHANGED <<callers, detector, extractor, calls, text, templates, parsed,
                   result2, element, judged, llm_response, llm_out>>

ExtractAgain ==
    /\ pc = "extracted"
    /\ \E seed \in Seeds :
          LET out == extract(parsed, templates_cache, templates, seed)
          IN  /\ result2' = out
              /\ templates_cache' = out.cache
    /\ pc' = "again"
    /\ UNCHANGED <<callers, detector, extractor, calls, text, templates, parsed,
                   result, element, judged, llm_response, llm_out>>

DetectUnknownTerms ==
    /\ pc = "detect"
    /\ \E response \in Responses, seed \in Seeds :
          /\ llm_response' = response
          /\ llm_out' = detect_unknown_terms(response, seed)
    /\ pc' = "detected"
    /\ UNCHANGED <<callers, detector, extractor, calls, text, templates, parsed,
                   templates_cache, result, result2, element, judged>>

Next == Parse \/ Extract \/ ExtractAgain \/ DetectUnknownTerms

Spec == Init /\ [][Next]_vars

(* judge on one checklist item. *)
InitJudge ==
    /\ element \in Items
    /\ text = <<>>
    /\ templates = NoTemplates
    /\ pc = "start"
    /\ parsed = NoParse
    /\ templates_cache = [a \in ActionTypeSet |-> <<>>]
    /\ result = NoResult
    /\ result2 = NoResult
    /\ judged = NoJudged
    /\ llm_response = [parseable |-> FALSE, unknown_terms |-> <<>>]
    /\ llm_out = [outcome |-> "none", elements |-> <<>>]
    /\ calls = <<>>
    /\ extractor = extractor_init({})
    /\ callers = <<>>
    /\ detector = NoDetector

Judge ==
    /\ pc = "start"
    /\ judged' = judge(element)
    /\ pc' = "judged"
    /\ UNCHANGED <<callers, detector, extractor, calls, text, templates, parsed,
                   templates_cache, result, result2, element, llm_response,
                   llm_out>>

NextJudge == Judge

SpecJudge == InitJudge /\ [][NextJudge]_vars

(* classify on a text, and again on the text with one more occurrence of a *)
(* keyword put at its end or at its start.                                 *)
AllKeywords ==
    UNION {{ACTION_PATTERNS[a].keywords[k] : k \in 1..Len(ACTION_PATTERNS[a].keywords)} :
              a \in ActionTypeSet}

Classified(t) == [outcome |-> "classified", classification |-> classify(t)]

InitClassify ==
    /\ text \in KwDocs
    /\ templates = NoTemplates
    /\ pc = "start"
    /\ parsed = NoParse
    /\ templates_cache = [a \in ActionTypeSet |-> <<>>]
    /\ result = NoResult
    /\ result2 = NoResult
    /\ element = NoElement
    /\ judged = NoJudged
    /\ llm_response = [parseable |-> FALSE, unknown_terms |-> <<>>]
    /\ llm_out = [outcome |-> "none", elements |-> <<>>]
    /\ calls = <<>>
    /\ extractor = extractor_init({})
    /\ callers = <<>>
    /\ detector = NoDetector

Classify ==
    /\ pc = "start"
    /\ result' = Classified(text)
    /\ pc' = "classified"
    /\ UNCHANGED <<callers, detector, extractor, calls, text, templates, parsed,
                   templates_cache, result2, element, judged, llm_response,
                   llm_out>>

ClassifyWithKeywordAdded ==
    /\ pc = "classified"
    /\ \E w \in AllKeywords : text' \in {text \o w, w \o text}
    /\ result2' = Classified(text')
    /\ pc' = "added"
    /\ UNCHANGED <<callers, detector, extractor, calls, templates, parsed,
                   templates_cache, result, element, judged, llm_response,
                   llm_out>>

NextClassify == Classify \/ ClassifyWithKeywordAdded

SpecClassify == InitClassify /\ [][NextClassify]_vars

(* Calls of load_template and get_checklist_for_action_type on one          *)
(* CriticalityJudge, over the templates one templates_dir holds.  calls     *)
(* records, for each call, whether it went to templates_dir and whether it  *)
(* put an entry into templates_cache.                                       *)
CacheSources == {RepoTemplates, VariedTemplates, OptionlessTemplates} \cup MalformedTemplates

Call(method, action_type, cache, cache_after, outcome) ==
    [method |-> method, action_type |-> action_type,
     read_source |-> reads_source(cache, action_type),
     stored |-> cache_after[action_type] # cache[action_type],
     outcome |-> outcome]

InitCache ==
    /\ templates \in CacheSources
    /\ text = <<>>
    /\ pc = "judge"
    /\ parsed = NoParse
    /\ templates_cache = [a \in ActionTypeSet |-> <<>>]
    /\ result = NoResult
    /\ result2 = NoResult
    /\ element = NoElement
    /\ judged = NoJudged
    /\ llm_response = [parseable |-> FALSE, unknown_terms |-> <<>>]
    /\ llm_out = [outcome |-> "none", elements |-> <<>>]
    /\ calls = <<>>
    /\ extractor = extractor_init({})
    /\ callers = <<>>
    /\ detector = NoDetector

LoadTemplate ==
    /\ pc = "judge"
    /\ Len(calls) < MaxCalls
    /\ \E a \in ActionTypeSet :
          LET loaded == load_template(templates_cache, templates, a)
          IN  /\ templates_cache' = loaded[2]
              /\ calls' = Append(calls,
                                 Call("load_template", a, templates_cache, loaded[2],
                                      IF raised(loaded[1]) THEN "raised" ELSE "ok"))
    /\ UNCHANGED <<callers, detector, extractor, text, templates, pc, parsed,
                   result, result2, element, judged, llm_response, llm_out>>

GetChecklistForActionType ==
    /\ pc = "judge"
    /\ Len(calls) < MaxCalls
    /\ \E a \in ActionTypeSet :
          LET got == get_checklist_for_action_type(templates_cache, templates, a)
          IN  /\ templates_cache' = got.cache
              /\ calls' = Append(calls,
                                 Call("get_checklist_for_action_type", a, templates_cache,
                                      got.cache, got.outcome))
    /\ UNCHANGED <<callers, detector, extractor, text, templates, pc, parsed,
                   result, result2, element, judged, llm_response, llm_out>>

NextCache == LoadTemplate \/ GetChecklistForActionType

SpecCache == InitCache /\ [][NextCache]_vars

(* The extractor is constructed the way its callers do it, and then parse   *)
(* and extract run on a document.                                           *)
Constructions ==
    {{},
     {<<"use_llm", "False">>},
     {<<"use_llm", "True">>, <<"api_key", "None">>},
     {<<"use_llm", "True">>, <<"api_key", "key">>}}

(* "the user can add the product to the cart." (test_llm_without_api_key) *)
NoKeyDocs ==
    {<<"yuza", "ha", "shohin", "wo", "kato", "ni", "tsuika", "dekiru", ".">>} \cup MetaDocs

InitConstruct ==
    /\ text \in NoKeyDocs
    /\ templates = NoTemplates
    /\ pc = "new"
    /\ parsed = NoParse
    /\ templates_cache = [a \in ActionTypeSet |-> <<>>]
    /\ result = NoResult
    /\ result2 = NoResult
    /\ element = NoElement
    /\ judged = NoJudged
    /\ llm_response = [parseable |-> FALSE, unknown_terms |-> <<>>]
    /\ llm_out = [outcome |-> "none", elements |-> <<>>]
    /\ calls = <<>>
    /\ extractor = [outcome |-> "none", kwargs |-> {}]
    /\ callers = <<>>
    /\ detector = NoDetector

Construct ==
    /\ pc = "new"
    /\ \E kwargs \in Constructions : extractor' = extractor_init(kwargs)
    /\ pc' = IF extractor'.outcome = "raised" THEN "failed" ELSE "start"
    /\ UNCHANGED <<callers, detector, text, templates, parsed, templates_cache,
                   result, result2, element, judged, llm_response, llm_out,
                   calls>>

NextConstruct == Construct \/ Parse \/ Extract

SpecConstruct == InitConstruct /\ [][NextConstruct]_vars

(* Callers that run load_template on one CriticalityJudge at the same time. *)
(* A caller is at "check" (line 74), "cached" (75), "exists" (81), "read"   *)
(* (84-85), "store" (87) or "done"; template is its local variable and      *)
(* outcome what the call gave: "returned" with the template, or "raised".   *)
Callers == 1..NumCallers

RaceKeys == {"DELETE", "CREATE"}

NoTemplate == [checklist |-> <<>>]

InitRace ==
    /\ templates \in CacheSources
    /\ callers \in [Callers -> {[pc |-> "check", action_type |-> a, template |-> NoTemplate,
                                 outcome |-> "running"] : a \in RaceKeys}]
    /\ text = <<>>
    /\ pc = "race"
    /\ parsed = NoParse
    /\ templates_cache = [a \in ActionTypeSet |-> <<>>]
    /\ result = NoResult
    /\ result2 = NoResult
    /\ element = NoElement
    /\ judged = NoJudged
    /\ llm_response = [parseable |-> FALSE, unknown_terms |-> <<>>]
    /\ llm_out = [outcome |-> "none", elements |-> <<>>]
    /\ calls = <<>>
    /\ extractor = extractor_init({})
    /\ detector = NoDetector

(* if action_type in self.templates_cache *)
CheckCache ==
    /\ pc = "race"
    /\ \E c \in Callers :
          /\ callers[c].pc = "check"
          /\ callers' = [callers EXCEPT ![c].pc =
                            IF templates_cache[callers[c].action_type] # <<>>
                            THEN "cached" ELSE "exists"]
    /\ UNCHANGED <<text, templates, pc, parsed, templates_cache, result, result2,
                   element, judged, llm_response, llm_out, calls, extractor, detector>>

(* return self.templates_cache[action_type]; KeyError when the entry is not *)
(* there.                                                                   *)
ReturnCached ==
    /\ pc = "race"
    /\ \E c \in Callers :
          /\ callers[c].pc = "cached"
          /\ callers' =
                 [callers EXCEPT ![c] =
                     IF templates_cache[callers[c].action_type] = <<>>
                     THEN [@ EXCEPT !.pc = "done", !.outcome = "raised"]
                     ELSE [@ EXCEPT !.pc = "done", !.outcome = "returned",
                                    !.template =
                                        templates_cache[callers[c].action_type][1]]]
    /\ UNCHANGED <<text, templates, pc, parsed, templates_cache, result, result2,
                   element, judged, llm_response, llm_out, calls, extractor, detector>>

(* if not template_path.exists(): return {"checklist": []} *)
CheckExists ==
    /\ pc = "race"
    /\ \E c \in Callers :
          /\ callers[c].pc = "exists"
          /\ callers' =
                 [callers EXCEPT ![c] =
                     IF templates[callers[c].action_type] = <<>>
                     THEN [@ EXCEPT !.pc = "done", !.outcome = "returned",
                                    !.template = NoTemplate]
                     ELSE [@ EXCEPT !.pc = "read"]]
    /\ UNCHANGED <<text, templates, pc, parsed, templates_cache, result, result2,
                   element, judged, llm_response, llm_out, calls, extractor, detector>>

(* template = yaml.safe_load(f) *)
ReadSource ==
    /\ pc = "race"
    /\ \E c \in Callers :
          /\ callers[c].pc = "read"
          /\ callers' =
                 [callers EXCEPT ![c] =
                     IF yaml_raises(templates[callers[c].action_type][1])
                     THEN [@ EXCEPT !.pc = "done", !.outcome = "raised"]
                     ELSE [@ EXCEPT !.pc = "store",
                                    !.template = templates[callers[c].action_type][1]]]
    /\ UNCHANGED <<text, templates, pc, parsed, templates_cache, result, result2,
                   element, judged, llm_response, llm_out, calls, extractor, detector>>

(* A store that puts an empty entry into the cache, to be filled later. *)
StorePlaceholderAndReturn ==
    /\ pc = "race"
    /\ \E c \in Callers :
          /\ callers[c].pc = "store"
          /\ templates_cache' = [templates_cache EXCEPT ![callers[c].action_type] =
                                    <<NoTemplate>>]
          /\ callers' = [callers EXCEPT ![c].pc = "done", ![c].outcome = "returned"]
    /\ UNCHANGED <<text, templates, pc, parsed, result, result2, element, judged,
                   llm_response, llm_out, calls, extractor, detector>>

(* self.templates_cache[action_type] = template; return template *)
StoreAndReturn ==
    /\ pc = "race"
    /\ \E c \in Callers :
          /\ callers[c].pc = "store"
          /\ templates_cache' = [templates_cache EXCEPT ![callers[c].action_type] =
                                    <<callers[c].template>>]
          /\ callers' = [callers EXCEPT ![c].pc = "done", ![c].outcome = "returned"]
    /\ UNCHANGED <<text, templates, pc, parsed, result, result2, element, judged,
                   llm_response, llm_out, calls, extractor, detector>>

NextRace == CheckCache \/ ReturnCached \/ CheckExists \/ ReadSource \/ StoreAndReturn

SpecRace == InitRace /\ [][NextRace]_vars

(* RequirementParser.parse on its own. *)
ParseDocs == TypeDocs \cup ScoreDocs \cup ActDocs

InitParse ==
    /\ text \in ParseDocs
    /\ templates = NoTemplates
    /\ pc = "start"
    /\ parsed = NoParse
    /\ templates_cache = [a \in ActionTypeSet |-> <<>>]
    /\ result = NoResult
    /\ result2 = NoResult
    /\ element = NoElement
    /\ judged = NoJudged
    /\ llm_response = [parseable |-> FALSE, unknown_terms |-> <<>>]
    /\ llm_out = [outcome |-> "none", elements |-> <<>>]
    /\ calls = <<>>
    /\ extractor = extractor_init({})
    /\ callers = <<>>
    /\ detector = NoDetector

SpecParse == InitParse /\ [][Parse]_vars

(* A sequence of detect_unknown_terms calls on one detector. *)
ApiOutcomes ==
    {[failed |-> TRUE, input_tokens |-> 0, output_tokens |-> 0,
      response |-> [parseable |-> FALSE, unknown_terms |-> <<>>]]}
    \cup {[failed |-> FALSE, input_tokens |-> i, output_tokens |-> o, response |-> r] :
             i \in 0..MaxKiloTokens, o \in 0..1, r \in Responses}

InitBudget ==
    /\ text = <<>>
    /\ templates = NoTemplates
    /\ pc = "budget"
    /\ parsed = NoParse
    /\ templates_cache = [a \in ActionTypeSet |-> <<>>]
    /\ result = NoResult
    /\ result2 = NoResult
    /\ element = NoElement
    /\ judged = NoJudged
    /\ llm_response = [parseable |-> FALSE, unknown_terms |-> <<>>]
    /\ llm_out = [outcome |-> "none", elements |-> <<>>]
    /\ calls = <<>>
    /\ extractor = extractor_init({})
    /\ callers = <<>>
    /\ detector \in {detector_init(m) : m \in 0..MaxBudget}

DetectUnknownTermsCall ==
    /\ pc = "budget"
    /\ detector.attempts < MaxAttempts
    /\ \E api \in ApiOutcomes, seed \in Seeds :
          detector' = detect_unknown_terms_call(detector, api, seed)
    /\ UNCHANGED <<callers, extractor, calls, text, templates, pc, parsed,
                   templates_cache, result, result2, element, judged,
                   llm_response, llm_out>>

SpecBudget == InitBudget /\ [][DetectUnknownTermsCall]_vars

-----------------------------------------------------------------------------
(* Properties of extract, classify, judge and parse *)

Extracted == pc \in {"extracted", "again"}

Returned == Extracted /\ result.outcome = "ok"

ElementIndices(r) == 1..Len(r.undefined_elements)

error_findings_for(r, action) ==
    {k \in ElementIndices(r) : /\ r.undefined_elements[k].category = CAT_ERROR
                               /\ r.undefined_elements[k].related = action.id}

(* C1: whenever extract returns, every action whose error handling is not  *)
(* defined has no finding of category 'エラーハンドリングの欠落' when the   *)
(* classification is a known category, and exactly one when it is UNKNOWN. *)
C1_ErrorHandlingSuppression ==
    Returned =>
        \A a \in 1..Len(parsed.actions) :
            ~parsed.actions[a].error_handling.defined =>
                Cardinality(error_findings_for(result, parsed.actions[a]))
                    = IF result.classification.action_type = UNKNOWN THEN 1 ELSE 0

(* Two actions in a document classified DELETE, and no such finding. *)
C1_Witness ==
    /\ Returned
    /\ result.classification.action_type = "DELETE"
    /\ Len(parsed.actions) >= 2
    /\ \A a \in 1..Len(parsed.actions) :
           /\ ~parsed.actions[a].error_handling.defined
           /\ error_findings_for(result, parsed.actions[a]) = {}

(* C2: two calls of extract on the same ParsedRequirement return the same  *)
(* list of findings: same length, same order, every field equal, the id    *)
(* included.                                                               *)
C2_ExtractIdempotent ==
    (pc = "again" /\ result.outcome = "ok" /\ result2.outcome = "ok") =>
        result2.undefined_elements = result.undefined_elements

keyword_count(t, a) ==
    Cardinality({ACTION_PATTERNS[a].keywords[k] :
                    k \in {i \in 1..Len(ACTION_PATTERNS[a].keywords) :
                              Contains(t, ACTION_PATTERNS[a].keywords[i])}})

declared_at(a) == CHOOSE i \in 1..Len(ActionTypes) : ActionTypes[i] = a

(* C3: when some category has a keyword in the text, classify returns a    *)
(* category whose count of distinct keywords in the text no category       *)
(* exceeds, and no category declared before it has the same count.         *)
C3_HighestCountFirstDeclared ==
    (Extracted /\ \E a \in ActionTypeSet : keyword_count(text, a) > 0) =>
        LET won == result.classification.action_type
        IN  /\ won \in ActionTypeSet
            /\ \A b \in ActionTypeSet : keyword_count(text, b) <= keyword_count(text, won)
            /\ \A i \in 1..(declared_at(won) - 1) :
                   keyword_count(text, ActionTypes[i]) < keyword_count(text, won)

(* DELETE and CREATE share the highest count, and DELETE is returned. *)
C3_Witness ==
    /\ Extracted
    /\ keyword_count(text, "DELETE") >= 1
    /\ keyword_count(text, "CREATE") = keyword_count(text, "DELETE")
    /\ \A b \in ActionTypeSet : keyword_count(text, b) <= keyword_count(text, "DELETE")
    /\ result.classification.action_type = "DELETE"

(* C4: the score of every CriticalityResult of judge is at least 0.0 and   *)
(* at most 10.0 (scores are in tenths).                                    *)
C4_ScoreRange ==
    pc = "judged" => (0 <= judged.score /\ judged.score <= 100)

(* An item whose additions sum to 13.0 is given 10.0. *)
C4_Witness ==
    /\ pc = "judged"
    /\ element.affects = AllAffects
    /\ element.detection_phase = "production"
    /\ change_cost_score(element.change_cost_if_later) = 30
    /\ judged.score = 100

Overrides == {MUST_DEFINE, SHOULD_CONFIRM, CAN_DECIDE_LATER}

(* C5: the tier judge resolves is the explicit criticality of the item     *)
(* when it has one, whatever the score; otherwise must-define for a score  *)
(* of 5.0 or more, should-confirm from 3.0 up to 5.0, can-decide-later     *)
(* below 3.0.                                                              *)
C5_TierResolution ==
    pc = "judged" =>
        IF element.criticality \in Overrides
        THEN judged.criticality = element.criticality
        ELSE /\ judged.score >= 50 => judged.criticality = MUST_DEFINE
             /\ (30 <= judged.score /\ judged.score < 50) =>
                    judged.criticality = SHOULD_CONFIRM
             /\ judged.score < 30 => judged.criticality = CAN_DECIDE_LATER

(* An item marked CAN_DECIDE_LATER keeps that tier with a score of 5.0 or  *)
(* more.                                                                   *)
C5_Witness ==
    /\ pc = "judged"
    /\ element.criticality = CAN_DECIDE_LATER
    /\ judged.score >= 50
    /\ judged.criticality = CAN_DECIDE_LATER

in_range(e) ==
    /\ 0 <= e.detection.confidence
    /\ e.detection.confidence <= 1000
    /\ e.estimated_severity \in Priorities

requirement_findings(r) ==
    {k \in ElementIndices(r) : /\ r.undefined_elements[k].related # NoId
                               /\ r.undefined_elements[k].related[1] = "REQ"}

(* C7: for a document with a requirement "shall operate fast" and no       *)
(* numeric threshold, parse and extract give exactly one finding for a     *)
(* requirement; it is in the non-functional/performance category and its   *)
(* question asks for the response-time target.                             *)
C7_ScenarioB ==
    (Returned /\ text \in ScenarioBDocs) =>
        /\ Cardinality(requirement_findings(result)) = 1
        /\ \A k \in requirement_findings(result) :
               /\ result.undefined_elements[k].category = CAT_NONFUNCTIONAL
               /\ result.undefined_elements[k].subcategory = "performance"
               /\ result.undefined_elements[k].questions[1].text = <<"response_time_target">>

checklist_findings(r, title) ==
    {k \in ElementIndices(r) :
        /\ r.undefined_elements[k].detection.method = "template_driven"
        /\ r.undefined_elements[k].subcategory = title}

(* C8: for "build a feature to delete <entity>" with the repository's      *)
(* templates, classify gives DELETE with at least one matched keyword, and *)
(* extract returns one checklist finding for the deletion method and one   *)
(* for the cascade-deletion scope, each with the tier, must-define or      *)
(* should-confirm, of its template item.                                   *)
C8_ScenarioA ==
    (Extracted /\ text \in ScenarioADocs /\ templates = RepoTemplates) =>
        /\ result.outcome = "ok"
        /\ result.classification.action_type = "DELETE"
        /\ Len(result.classification.matched_keywords) >= 1
        /\ \A title \in {"delete_method", "cascade_delete"} :
               \E i \in 1..Len(templates["DELETE"][1].checklist) :
                   LET item == templates["DELETE"][1].checklist[i]
                   IN  /\ item.title = title
                       /\ item.criticality \in {MUST_DEFINE, SHOULD_CONFIRM}
                       /\ Cardinality(checklist_findings(result, title)) = 1
                       /\ \A k \in checklist_findings(result, title) :
                              result.undefined_elements[k].criticality_info[1].level
                                  = item.criticality

(* The document of quick_test.py, and the two findings with their tiers. *)
C8_Witness ==
    /\ pc = "extracted"
    /\ text = <<"\n", "yuza", "-", "wo", "sakujo", "suru", "kino", "wo", "tsukuru", "\n">>
    /\ templates = RepoTemplates
    /\ result.outcome = "ok"
    /\ \E k \in checklist_findings(result, "delete_method") :
           result.undefined_elements[k].criticality_info[1].level = MUST_DEFINE
    /\ \E k \in checklist_findings(result, "cascade_delete") :
           result.undefined_elements[k].criticality_info[1].level = SHOULD_CONFIRM

data_findings_for(r, noun) ==
    {k \in ElementIndices(r) :
        /\ r.undefined_elements[k].category = CAT_DATA
        /\ \E j \in 1..Len(parsed.entities) :
               /\ parsed.entities[j].name = noun
               /\ r.undefined_elements[k].related = parsed.entities[j].id}

(* C9: whenever extract returns, every noun of the vocabulary that occurs  *)
(* in the document has exactly one finding of category 'データ定義の欠落'   *)
(* whose related entity is the entity of that noun.                        *)
C9_ScenarioC ==
    Returned =>
        \A n \in 1..Len(common_nouns) :
            Contains(text, common_nouns[n]) =>
                Cardinality(data_findings_for(result, common_nouns[n])) = 1

(* Two nouns of the vocabulary in one document, one finding each. *)
C9_Witness ==
    /\ Returned
    /\ Contains(text, <<"yuza">>)
    /\ Contains(text, <<"shohin">>)
    /\ Cardinality(data_findings_for(result, <<"yuza">>)) = 1
    /\ Cardinality(data_findings_for(result, <<"shohin">>)) = 1

Parsed == pc \in {"parsed", "extracted", "again"}

Breaks == {SentenceTerminator, "\n"}

(* Position i holds a character that is neither whitespace, terminator nor *)
(* line break.                                                             *)
is_visible(c, i) == c[i] \notin (Whitespace \cup Breaks)

(* i is the first visible position of its segment. *)
opens_segment(c, i) ==
    /\ is_visible(c, i)
    /\ ~\E j \in 1..(i - 1) : is_visible(c, j) /\ \A m \in j..i : c[m] \notin Breaks

(* The line of position i has '#' as its first character after trimming. *)
in_comment_line(c, i) ==
    \E f \in 1..i :
        /\ c[f] = "#"
        /\ \A m \in f..i : c[m] # "\n"
        /\ \A j \in 1..(f - 1) : (\A m \in j..(f - 1) : c[m] # "\n") => c[j] \in Whitespace

trimmed_segments(c) ==
    Cardinality({i \in 1..Len(c) : opens_segment(c, i) /\ ~in_comment_line(c, i)})

(* C10, as amended: the number of sentences parse returns is the number of *)
(* segments that are non-empty after trimming, over the lines that, once   *)
(* trimmed, are neither empty nor start with '#', each split on the        *)
(* sentence terminator.                                                    *)
C10_TrimmedSegments ==
    Parsed =>
        /\ Len(parsed.sentences) = trimmed_segments(text)
        /\ parsed.statistics.total_sentences = trimmed_segments(text)

(* A whitespace-only segment between two terminators, after a sentence. *)
C10_Witness ==
    /\ pc = "parsed"
    /\ Len(parsed.sentences) >= 1
    /\ \E i \in 1..(Len(text) - 2) :
           text[i] = SentenceTerminator /\ text[i + 1] \in Whitespace
               /\ text[i + 2] = SentenceTerminator

literal_segments(c) ==
    LET lines == split(c, "\n")
    IN  SumSeq([n \in 1..Len(lines) |->
                   IF is_skipped_line(strip(lines[n])) THEN 0
                   ELSE Len(SelectSeq(split(strip(lines[n]), SentenceTerminator),
                                      LAMBDA s : s # <<>>))])

(* C10, as stated: the number of sentences parse returns is the number of  *)
(* non-empty segments of the non-blank, non-comment lines, each split on   *)
(* the sentence terminator.                                                *)
C10_NonEmptySegments ==
    Parsed => Len(parsed.sentences) = literal_segments(text)

(* C11: for every category c and keyword k of c, when classify is called   *)
(* again on the text with one more occurrence of k added, the vote count   *)
(* of c is not lower than before and the confidence classify returns is    *)
(* not lower than before.                                                  *)
C11_ClassifierMonotone ==
    [][\A c \in ActionTypeSet : \A n \in 1..Len(ACTION_PATTERNS[c].keywords) :
          LET w == ACTION_PATTERNS[c].keywords[n]
          IN  (pc = "classified" /\ pc' = "added" /\ text' \in {text \o w, w \o text}) =>
                  /\ Len(matched_keywords(text', c)) >= Len(matched_keywords(text, c))
                  /\ result2'.classification.confidence >= result.classification.confidence
       ]_vars

(* A keyword the text already holds is added once more; the votes of its   *)
(* category and the confidence stay as they were.                          *)
C11_Witness ==
    /\ pc = "added"
    /\ \E c \in ActionTypeSet : \E n \in 1..Len(ACTION_PATTERNS[c].keywords) :
           LET w == ACTION_PATTERNS[c].keywords[n]
               before == SubSeq(text, 1, Len(text) - Len(w))
           IN  /\ text = before \o w
               /\ Contains(before, w)
               /\ Len(matched_keywords(text, c)) = Len(matched_keywords(before, c))
    /\ result.classification.action_type # UNKNOWN
    /\ result2.classification.confidence = result.classification.confidence

template_findings(r) ==
    {k \in ElementIndices(r) :
        r.undefined_elements[k].detection.method = "template_driven"}

(* C12: when no keyword of any category occurs in the text, classify       *)
(* returns UNKNOWN with confidence 0, base severity LOW and no matched     *)
(* keyword, and extract returns without any checklist finding.             *)
C12_NoKeywordUnknown ==
    (Extracted /\ \A a \in ActionTypeSet : keyword_count(text, a) = 0) =>
        /\ result.classification.action_type = UNKNOWN
        /\ result.classification.confidence = 0
        /\ result.classification.base_severity = "LOW"
        /\ result.classification.matched_keywords = <<>>
        /\ result.outcome = "ok"
        /\ template_findings(result) = {}

(* A text without keyword, a template on disk for every category, and      *)
(* findings of the other producers only.                                   *)
C12_Witness ==
    /\ Returned
    /\ \A a \in ActionTypeSet : keyword_count(text, a) = 0
    /\ templates = VariedTemplates
    /\ result.undefined_elements # <<>>
    /\ template_findings(result) = {}

(* True when a call before the j-th, for the same action type, put the      *)
(* template into templates_cache.                                           *)
populated_before(j) ==
    \E i \in 1..(j - 1) : calls[i].action_type = calls[j].action_type /\ calls[i].stored

loadable(action_type) ==
    templates[action_type] # <<>> /\ ~yaml_raises(templates[action_type][1])

(* C13 (as amended): on one CriticalityJudge the cache entry of an action   *)
(* type is populated at most once, by the first call for it whose template  *)
(* file exists and loads; every call for that type after that one is        *)
(* answered from templates_cache without going to templates_dir; and a call *)
(* for a type without cache entry (no file, or a file that does not load)   *)
(* goes to templates_dir, the first time and every later time.              *)
C13_CachePopulatedOnce ==
    \A j \in 1..Len(calls) :
        /\ populated_before(j) => ~calls[j].read_source
        /\ ~populated_before(j) => calls[j].read_source
        /\ calls[j].stored <=> (~populated_before(j) /\ loadable(calls[j].action_type))

C13_Witness ==
    /\ Len(calls) = 3
    /\ calls[1].stored
    /\ calls[2].action_type = calls[1].action_type
    /\ ~calls[2].read_source /\ ~calls[2].stored
    /\ calls[3].action_type = calls[1].action_type
    /\ ~calls[3].read_source /\ ~calls[3].stored

(* C13 (as stated): the cache entry of an action type is populated at most  *)
(* once, and every call for that type after the first is answered from      *)
(* memory, without reading the external template source again.              *)
C13_ReadThroughCache ==
    \A j \in 1..Len(calls) :
        /\ (\E i \in 1..(j - 1) : calls[i].action_type = calls[j].action_type)
               => ~calls[j].read_source
        /\ calls[j].stored
               => ~\E i \in 1..(j - 1) :
                      calls[i].action_type = calls[j].action_type /\ calls[i].stored

(* The category that classify made the winning one. *)
winning(r) == r.classification.action_type

(* C14: when templates_dir holds no template for the winning category,      *)
(* load_template raises nothing and gives an empty checklist, and extract   *)
(* returns a finding set without any template-driven finding.               *)
C14_MissingTemplateEmptyChecklist ==
    (Extracted /\ winning(result) # UNKNOWN /\ templates[winning(result)] = <<>>) =>
        /\ ~raised(load_template(NoTemplates, templates, winning(result))[1])
        /\ get_checklist_for_action_type(NoTemplates, templates, winning(result)).checklist
              = <<>>
        /\ result.outcome = "ok"
        /\ template_findings(result) = {}

(* A text of a known category without template, whose findings come from    *)
(* the entity, action and requirement producers.                            *)
C14_Witness ==
    /\ Returned
    /\ winning(result) # UNKNOWN
    /\ templates[winning(result)] = <<>>
    /\ result.undefined_elements # <<>>
    /\ template_findings(result) = {}

MalformedFiles ==
    {fieldless_template, keyless_template, scalar_template, unparseable_template}

(* C15: when the template of the winning category exists and is malformed   *)
(* (it does not parse, or is not a mapping holding a list of checklist      *)
(* items with the specified fields), extract returns no finding set: it     *)
(* raises, on the first call and on the next call for that category.        *)
C15_MalformedTemplateFatal ==
    (pc = "again" /\ winning(result) # UNKNOWN
       /\ templates[winning(result)] # <<>>
       /\ templates[winning(result)][1] \in MalformedFiles) =>
        /\ result.outcome = "raised"
        /\ result2.outcome = "raised"

blank(t) == \A i \in 1..Len(t) : t[i] \in Whitespace \cup {"\n"}

(* C16: for an empty or whitespace-only text, parse returns without error   *)
(* and with zero sentences, and extract on that result returns without      *)
(* error and with zero findings.                                            *)
C16_BlankInput ==
    blank(text) =>
        /\ pc \in {"parsed", "extracted", "again"} => parsed.sentences = <<>>
        /\ Extracted => (result.outcome = "ok" /\ result.undefined_elements = <<>>)

(* A text of line breaks and spaces that went through parse and extract. *)
C16_Witness ==
    /\ Returned
    /\ blank(text)
    /\ \E i, j \in 1..Len(text) : text[i] = " " /\ text[j] = "\n"
    /\ parsed.sentences = <<>>
    /\ result.undefined_elements = <<>>

(* C17: every finding a producer constructs carries one detection method,  *)
(* and it is one of the labels the finding schema accepts: those that       *)
(* extract returns, and those that the model-backed detector constructs for *)
(* the terms of a response.                                                 *)
C17_DetectionMethodClosed ==
    /\ Returned =>
           \A k \in ElementIndices(result) :
               result.undefined_elements[k].detection.method \in DetectionMethods
    /\ (pc = "detected" /\ llm_response.parseable) =>
           \A k \in 1..Len(llm_response.unknown_terms) : \A seed \in Seeds :
               llm_convert_to_undefined_element(llm_response.unknown_terms[k], seed, k)
                   .detection.method \in DetectionMethods

(* The findings of high or critical severity, and the n-th of them in the   *)
(* order in which extract emitted them.                                     *)
severe(r) ==
    {k \in ElementIndices(r) :
        r.undefined_elements[k].estimated_severity \in {"high", "critical"}}

nth_severe(r, n) ==
    CHOOSE k \in severe(r) : Cardinality({j \in severe(r) : j <= k}) = n

(* The producer of a finding: 1 checklist, 2 entity, 3 action, 4            *)
(* requirement.                                                             *)
producer(e) ==
    IF e.detection.method = "template_driven" THEN 1
    ELSE IF e.related[1] = "E" THEN 2
    ELSE IF e.related[1] = "A" THEN 3
    ELSE 4

(* C18: critical_gaps holds the titles of the findings of severity high or  *)
(* critical, in the order in which they were emitted (checklist, entity,    *)
(* action, requirement; not by severity), cut to the first five.            *)
C18_CriticalGaps ==
    Returned =>
        LET gaps == result.meta_analysis.critical_gaps
        IN  /\ Len(gaps) = Min(5, Cardinality(severe(result)))
            /\ \A n \in 1..Len(gaps) :
                   gaps[n] = result.undefined_elements[nth_severe(result, n)].title
            /\ \A j, k \in ElementIndices(result) :
                   j < k => producer(result.undefined_elements[j])
                              <= producer(result.undefined_elements[k])

(* More than five severe findings, a high one emitted before a critical one *)
(* and a severe finding of the action producer after the checklist's.       *)
C18_Witness ==
    /\ Returned
    /\ Cardinality(severe(result)) > 5
    /\ Len(result.meta_analysis.critical_gaps) = 5
    /\ result.undefined_elements[nth_severe(result, 1)].estimated_severity = "high"
    /\ result.undefined_elements[nth_severe(result, 2)].estimated_severity = "critical"
    /\ \E k \in severe(result) : producer(result.undefined_elements[k]) = 3

error_handling_count(r) ==
    Cardinality({k \in ElementIndices(r) : r.undefined_elements[k].category = CAT_ERROR})

(* The place of a recommendation in the list, 0 when it is not there. *)
place(recs, rec) == IF \E n \in 1..Len(recs) : recs[n] = rec
                    THEN CHOOSE n \in 1..Len(recs) : recs[n] = rec ELSE 0

(* C19: the recommendations are built by three rules in this order, each    *)
(* adding one string exactly when its condition holds: average ambiguity    *)
(* above 0.6; at least one finding in the error-handling category (the      *)
(* string states their number); overall completeness below 0.5.  There is   *)
(* no other recommendation, and overall_completeness is the average         *)
(* completeness of the parse stage.                                         *)
C19_Recommendations ==
    Returned =>
        LET recs == result.meta_analysis.recommendations
            quantify == <<"quantify_nonfunctional">>
            errors == <<"error_handling_missing_at", error_handling_count(result)>>
            clarify == <<"clarify_overall">>
            rules == <<quantify, errors, clarify>>
        IN  /\ place(recs, quantify) > 0 <=> parsed.statistics.avg_ambiguity_score > 60
            /\ place(recs, errors) > 0 <=> error_handling_count(result) > 0
            /\ place(recs, clarify) > 0
                  <=> result.meta_analysis.overall_completeness < 50
            /\ Len(recs) = Cardinality({n \in 1..3 : place(recs, rules[n]) > 0})
            /\ \A m, n \in 1..3 :
                   (m < n /\ place(recs, rules[m]) > 0 /\ place(recs, rules[n]) > 0)
                       => place(recs, rules[m]) < place(recs, rules[n])
            /\ result.meta_analysis.overall_completeness
                  = parsed.statistics.avg_completeness_score

(* The three rules apply at once, and the second states two findings. *)
C19_Witness ==
    /\ Returned
    /\ parsed.statistics.avg_ambiguity_score > 60
    /\ parsed.statistics.avg_completeness_score < 50
    /\ error_handling_count(result) > 0
    /\ result.meta_analysis.recommendations
          = << <<"quantify_nonfunctional">>,
               <<"error_handling_missing_at", error_handling_count(result)>>,
               <<"clarify_overall">> >>

(* C20: an extractor constructed with use_llm=True and api_key=None is      *)
(* constructed without raising, and extract on a parsed document then       *)
(* returns, with findings of the rule-based producers only.                 *)
C20_WorksWithoutApiKey ==
    (pc # "new" /\ extractor.kwargs = {<<"use_llm", "True">>, <<"api_key", "None">>}) =>
        /\ extractor.outcome = "constructed"
        /\ pc # "failed"
        /\ Extracted =>
               /\ result.outcome = "ok"
               /\ \A k \in ElementIndices(result) :
                      result.undefined_elements[k].detection.method \in DetectionMethods

(* C21: when callers run load_template for the same action type at the     *)
(* same time, interleaved at every step, the callers that are done have     *)
(* returned equal templates, none has met a missing entry, and, the         *)
(* template being one that loads, the cache entry holds what they returned  *)
(* from the first store on.                                                 *)
C21_ConcurrentLoadHarmless ==
    pc = "race" =>
        \A c, d \in Callers :
            (callers[c].action_type = callers[d].action_type /\ callers[c].pc = "done") =>
                LET a == callers[c].action_type
                IN  /\ callers[c].outcome = "returned" <=> ~(templates[a] # <<>>
                                                             /\ yaml_raises(templates[a][1]))
                    /\ (callers[d].pc = "done" /\ callers[c].outcome = "returned")
                          => callers[d].template = callers[c].template
                    /\ loadable(a) => /\ callers[c].outcome = "returned"
                                      /\ templates_cache[a] = <<callers[c].template>>
                                      /\ callers[c].template = templates[a][1]

(* Both callers missed the cache and read the file; the first has stored    *)
(* and returned, the second is about to store the same content again.       *)
C21_Witness ==
    /\ pc = "race"
    /\ callers[1].action_type = callers[2].action_type
    /\ loadable(callers[1].action_type)
    /\ callers[1].pc = "done" /\ callers[2].pc = "store"
    /\ templates_cache[callers[1].action_type] = <<callers[2].template>>

(* The sum of the additions for the affected areas, the change cost and    *)
(* the detection phase of the judged item, in tenths.                       *)
additive_score ==
    (IF element.affects.data_model THEN 30 ELSE 0)
    + (IF element.affects.external_system THEN 20 ELSE 0)
    + (IF element.affects.security THEN 30 ELSE 0)
    + change_cost_score(element.change_cost_if_later)
    + detection_phase_score(element.detection_phase)

(* C22: the score judge returns for an item with the explicit criticality   *)
(* MUST_DEFINE is at least 5.0, and with SHOULD_CONFIRM at least 3.0,       *)
(* whatever its flags, change cost and phase; the floor comes before the    *)
(* clip to 10.0 and never lowers a higher additive score.                   *)
C22_OverrideFloor ==
    pc = "judged" =>
        /\ element.criticality = MUST_DEFINE =>
               (judged.score >= 50 /\ judged.score = Min(100, Max(additive_score, 50)))
        /\ element.criticality = SHOULD_CONFIRM =>
               (judged.score >= 30 /\ judged.score = Min(100, Max(additive_score, 30)))
        /\ element.criticality \in {MUST_DEFINE, SHOULD_CONFIRM} =>
               judged.score >= Min(100, additive_score)

(* An item that must be defined and whose additions sum to 0.5 scores 5.0;  *)
(* the floor has acted.                                                     *)
C22_Witness ==
    /\ pc = "judged"
    /\ element.criticality = MUST_DEFINE
    /\ additive_score = 5
    /\ judged.score = 50

(* The cue lists a sentence matches. *)
has_capability_cue(s) == \E k \in 1..Len(requirement_cues) : Contains(s.text, requirement_cues[k])

has_obligation_cue(s) == \E k \in 1..Len(constraint_cues) : Contains(s.text, constraint_cues[k])

has_example_marker(s) == \E k \in 1..Len(example_cues) : Contains(s.text, example_cues[k])

(* C23: a sentence with a capability cue is a requirement; otherwise one   *)
(* with an obligation cue is a constraint; otherwise one with an example   *)
(* marker is an example; otherwise it is an explanation.  A sentence that  *)
(* matches several cue lists gets the type of the first of them.           *)
C23_SentenceTypePriority ==
    pc = "parsed" =>
        \A k \in 1..Len(parsed.sentences) :
            LET s == parsed.sentences[k]
            IN  /\ has_capability_cue(s) => s.type = "requirement"
                /\ (~has_capability_cue(s) /\ has_obligation_cue(s)) => s.type = "constraint"
                /\ (~has_capability_cue(s) /\ ~has_obligation_cue(s) /\ has_example_marker(s))
                       => s.type = "example"
                /\ (~has_capability_cue(s) /\ ~has_obligation_cue(s) /\ ~has_example_marker(s))
                       => s.type = "explanation"

(* A sentence with an obligation cue and an example marker, and without a  *)
(* capability cue, is a constraint.                                        *)
C23_Witness ==
    /\ pc = "parsed"
    /\ \E k \in 1..Len(parsed.sentences) :
          LET s == parsed.sentences[k]
          IN  ~has_capability_cue(s) /\ has_obligation_cue(s) /\ has_example_marker(s)
              /\ s.type = "constraint"

(* The findings of r reported for the requirement req. *)
findings_about(r, req) == {k \in ElementIndices(r) : r.undefined_elements[k].related = req.id}

(* The n-th ambiguity pattern is found in t. *)
pattern_matches(n, t) ==
    \E w \in 1..Len(vague_patterns[n].words) : Contains(t, vague_patterns[n].words[w])

(* C24: extract gives a finding for a requirement if and only if its       *)
(* ambiguity score is above 0.6, and then exactly one; its category and    *)
(* subcategory are those of the first pattern found in the text, in the    *)
(* order performance, boundary, security, timing, execution condition, and *)
(* its category is the non-functional one when no pattern is found.        *)
C24_RequirementAmbiguity ==
    Returned =>
        \A q \in 1..Len(parsed.requirements) :
            LET req == parsed.requirements[q]
                found == findings_about(result, req)
            IN  /\ req.ambiguity_score > 600 => Cardinality(found) = 1
                /\ req.ambiguity_score <= 600 => found = {}
                /\ [n \in 1..Len(vague_patterns) |-> vague_patterns[n].subcategory]
                       = <<"performance", "boundary", "security", "timing",
                           "execution_condition">>
                /\ \A k \in found :
                       LET e == result.undefined_elements[k]
                       IN  /\ \A n \in 1..Len(vague_patterns) :
                                  (pattern_matches(n, req.text)
                                   /\ \A m \in 1..(n - 1) : ~pattern_matches(m, req.text))
                                      => /\ e.category = vague_patterns[n].category
                                         /\ e.subcategory = vague_patterns[n].subcategory
                           /\ (\A n \in 1..Len(vague_patterns) : ~pattern_matches(n, req.text))
                                  => e.category = CAT_NONFUNCTIONAL

(* A requirement above the threshold whose text holds a security word, a   *)
(* timing word and a condition word has one finding, a security one.       *)
C24_Witness ==
    /\ Returned
    /\ \E q \in 1..Len(parsed.requirements) :
          LET req == parsed.requirements[q]
          IN  /\ req.ambiguity_score > 600
              /\ ~pattern_matches(1, req.text) /\ ~pattern_matches(2, req.text)
              /\ pattern_matches(3, req.text) /\ pattern_matches(4, req.text)
              /\ pattern_matches(5, req.text)
              /\ \E k \in findings_about(result, req) :
                     /\ result.undefined_elements[k].category = CAT_NONFUNCTIONAL
                     /\ result.undefined_elements[k].subcategory = "security"

(* How many words of the list occur in t. *)
hits(words, t) == Cardinality({k \in 1..Len(words) : Contains(t, words[k])})

has_conditional_clause(t) == Contains(t, <<"baai">>) \/ Contains(t, <<"to", "ki">>)

has_threshold_token(t) ==
    \E w \in {<<"=">>, <<">">>, <<"<">>, <<"ijo">>, <<"ika">>} : Contains(t, w)

(* 0.2 for each vague adjective and adverb of the sentence, and 0.3 for a  *)
(* conditional clause without a threshold token, in thousandths.            *)
ambiguity_sum(t) ==
    200 * hits(vague_adjectives, t) + 200 * hits(vague_adverbs, t)
    + (IF has_conditional_clause(t) /\ ~has_threshold_token(t) THEN 300 ELSE 0)

(* C25: the ambiguity score of a requirement is min(1.0, 0.2 per vague      *)
(* adjective found + 0.2 per vague adverb found + 0.3 when the sentence has *)
(* a conditional clause and no comparison operator or threshold token), to  *)
(* the precision of double arithmetic, and lies in [0, 1].                  *)
C25_AmbiguityScore ==
    pc = "parsed" =>
        \A q \in 1..Len(parsed.requirements) :
            LET req == parsed.requirements[q]
            IN  /\ Nominal(req.ambiguity_score) = Min(1000, ambiguity_sum(req.text))
                /\ req.ambiguity_score >= 0
                /\ req.ambiguity_score <= 1000

(* A requirement with four vague words and a conditional clause without a  *)
(* threshold token: the sum is 1.1 and the score 1.0.                      *)
C25_Witness ==
    /\ pc = "parsed"
    /\ \E q \in 1..Len(parsed.requirements) :
          LET req == parsed.requirements[q]
          IN  /\ hits(vague_adjectives, req.text) + hits(vague_adverbs, req.text) = 4
              /\ has_conditional_clause(req.text) /\ ~has_threshold_token(req.text)
              /\ ambiguity_sum(req.text) = 1100
              /\ req.ambiguity_score = 1000

(* The four checks of a requirement text, each on its own. *)
entity_present(t) == \E k \in 1..Len(parsed.entities) : Contains(t, parsed.entities[k].name)

verb_present(t) ==
    \E w \in {<<"dekiru">>, <<"suru">>, <<"hyoji">>, <<"tsuika">>} : Contains(t, w)

error_language_present(t) ==
    \E w \in {<<"era">>, <<"shippai">>, <<"dekinai">>} : Contains(t, w)

completeness_sum(t) ==
    (IF entity_present(t) THEN 300 ELSE 0) + (IF verb_present(t) THEN 300 ELSE 0)
    + (IF has_conditional_clause(t) THEN 100 ELSE 0)
    + (IF error_language_present(t) THEN 200 ELSE 0)

(* C26: the completeness score of a requirement is the sum of 0.3 for an    *)
(* entity, 0.3 for a verb, 0.1 for a conditional clause and 0.2 for error   *)
(* language, each given whenever its own check succeeds, clipped to [0, 1], *)
(* to the precision of double arithmetic; it lies in [0, 1].                *)
C26_CompletenessScore ==
    pc = "parsed" =>
        \A q \in 1..Len(parsed.requirements) :
            LET req == parsed.requirements[q]
            IN  /\ Nominal(req.completeness_score) = Min(1000, completeness_sum(req.text))
                /\ req.completeness_score >= 0
                /\ req.completeness_score <= 1000

(* A requirement with error language and a conditional clause but neither  *)
(* verb nor entity of its own, in a document whose other sentence names an *)
(* entity, scores 0.1 + 0.2.                                               *)
C26_Witness ==
    /\ pc = "parsed"
    /\ Len(parsed.entities) > 0
    /\ \E q \in 1..Len(parsed.requirements) :
          LET req == parsed.requirements[q]
          IN  /\ ~entity_present(req.text) /\ ~verb_present(req.text)
              /\ has_conditional_clause(req.text) /\ error_language_present(req.text)
              /\ req.completeness_score = 301

(* The sentences an action pattern matches, and the n-th of them. *)
matching_sentences ==
    {i \in 1..Len(parsed.sentences) :
        \/ match_subject_object_verb(parsed.sentences[i].text) # <<>>
        \/ match_object_verb(parsed.sentences[i].text) # <<>>}

nth_matching(n) ==
    CHOOSE i \in matching_sentences : Cardinality({j \in matching_sentences : j <= i}) = n

(* The groups of the first pattern that matches t, subject-object-verb     *)
(* before object-verb.                                                     *)
first_match(t) ==
    IF match_subject_object_verb(t) # <<>> THEN match_subject_object_verb(t)
    ELSE match_object_verb(t)

(* C27: the parser makes one action for each sentence that an action       *)
(* pattern matches and none for the others, from the groups of the first   *)
(* pattern that matches (subject-object-verb, then object-verb); so the    *)
(* actions are no more than the sentences, and their ids are distinct.     *)
C27_OneActionPerSentence ==
    pc = "parsed" =>
        /\ Len(parsed.actions) = Cardinality(matching_sentences)
        /\ Len(parsed.actions) <= Len(parsed.sentences)
        /\ \A j, k \in 1..Len(parsed.actions) :
               parsed.actions[j].id = parsed.actions[k].id => j = k
        /\ \A n \in 1..Len(parsed.actions) :
               LET t == parsed.sentences[nth_matching(n)].text
                   subject == find_entity(first_match(t)[1], parsed.entities)
               IN  /\ parsed.actions[n].object = find_entity(first_match(t)[2], parsed.entities)
                   /\ parsed.actions[n].subject
                          = (IF subject # NoId THEN subject ELSE <<"UNKNOWN">>)

(* A sentence that both patterns match, with different objects, gives one  *)
(* action, with the object of the subject-object-verb pattern.             *)
C27_Witness ==
    /\ pc = "parsed"
    /\ Len(parsed.sentences) = 1
    /\ Len(parsed.actions) = 1
    /\ LET t == parsed.sentences[1].text
       IN  /\ match_subject_object_verb(t) # <<>>
           /\ match_object_verb(t) # <<>>
           /\ find_entity(match_subject_object_verb(t)[2], parsed.entities)
                  # find_entity(match_object_verb(t)[2], parsed.entities)
           /\ parsed.actions[1].object
                  = find_entity(match_subject_object_verb(t)[2], parsed.entities)

(* The execution-condition findings of r for the action. *)
condition_findings_for(r, action) ==
    {k \in ElementIndices(r) : /\ r.undefined_elements[k].category = CAT_BEHAVIOUR
                               /\ r.undefined_elements[k].subcategory = "execution_condition"
                               /\ r.undefined_elements[k].related = action.id}

(* C28: every condition the parser makes is ambiguous and not defined, and *)
(* whenever extract returns it has given, for each action, one             *)
(* execution-condition finding for each of the action's preconditions,     *)
(* asking how that precondition is judged, whether the document's category *)
(* is a known one or UNKNOWN.                                               *)
C28_PreconditionsReported ==
    /\ Parsed =>
           \A a \in 1..Len(parsed.actions) :
               \A p \in 1..Len(parsed.actions[a].preconditions) :
                   /\ parsed.actions[a].preconditions[p].ambiguous
                   /\ ~parsed.actions[a].preconditions[p].defined
    /\ Returned =>
           \A a \in 1..Len(parsed.actions) :
               LET action == parsed.actions[a]
                   found == condition_findings_for(result, action)
               IN  /\ Cardinality(found) = Len(action.preconditions)
                   /\ \A p \in 1..Len(action.preconditions) :
                          \E k \in found :
                              result.undefined_elements[k].questions[1].text
                                  = <<"how_to_judge", action.preconditions[p].description>>

(* A deletion, of a known category, under three conditions: three          *)
(* findings for its action.                                                *)
C28_Witness ==
    /\ Returned
    /\ result.classification.action_type = "DELETE"
    /\ \E a \in 1..Len(parsed.actions) :
          /\ Len(parsed.actions[a].preconditions) = 3
          /\ Cardinality(condition_findings_for(result, parsed.actions[a])) = 3

(* The sum of the counts of a tally. *)
RECURSIVE sum_over(_, _)
sum_over(tally, keys) ==
    IF keys = {} THEN 0
    ELSE LET key == CHOOSE x \in keys : TRUE
         IN  tally[key] + sum_over(tally, keys \ {key})

tally_sum(tally) == sum_over(tally, DOMAIN tally)

(* The confidence class of a finding. *)
confidence_class(e) ==
    IF e.detection.confidence >= 800 THEN "high"
    ELSE IF e.detection.confidence >= 600 THEN "medium"
    ELSE "low"

(* C30: in what extract returns, total_undefined is the number of          *)
(* findings; by_category, by_severity and by_confidence (high from 0.8,    *)
(* medium from 0.6, low below) each count every finding once, under its    *)
(* own category, severity and confidence class, so each sums to            *)
(* total_undefined.                                                        *)
C30_StatisticsConsistent ==
    Returned =>
        LET es == result.undefined_elements
            st == result.statistics
        IN  /\ st.total_undefined = Len(es)
            /\ tally_sum(st.by_category) = st.total_undefined
            /\ tally_sum(st.by_severity) = st.total_undefined
            /\ tally_sum(st.by_confidence) = st.total_undefined
            /\ DOMAIN st.by_confidence = {"high", "medium", "low"}
            /\ \A k \in ElementIndices(result) :
                   /\ es[k].category \in DOMAIN st.by_category
                   /\ es[k].estimated_severity \in DOMAIN st.by_severity
            /\ \A c \in DOMAIN st.by_category :
                   st.by_category[c]
                       = Cardinality({k \in ElementIndices(result) : es[k].category = c})
            /\ \A v \in DOMAIN st.by_severity :
                   st.by_severity[v]
                       = Cardinality({k \in ElementIndices(result) :
                                         es[k].estimated_severity = v})
            /\ \A c \in DOMAIN st.by_confidence :
                   st.by_confidence[c]
                       = Cardinality({k \in ElementIndices(result) :
                                         confidence_class(es[k]) = c})

(* Findings of several categories and severities, one of them of           *)
(* confidence 0.8 exactly and one of medium confidence.                    *)
C30_Witness ==
    /\ Returned
    /\ Cardinality(DOMAIN result.statistics.by_category) >= 2
    /\ Cardinality(DOMAIN result.statistics.by_severity) >= 2
    /\ \E k \in ElementIndices(result) : result.undefined_elements[k].detection.confidence = 800
    /\ result.statistics.by_confidence.medium >= 1
    /\ result.statistics.by_confidence.high >= 2

(* What the last step did to the detector. *)
refused_unchanged ==
    /\ detector'.last = "refused"
    /\ detector'.requests = detector.requests
    /\ detector'.total_cost = detector.total_cost
    /\ detector'.call_count = detector.call_count

request_issued == detector'.requests = detector.requests + 1

response_received == detector'.responses = detector.responses + 1

(* C29: in any sequence of detect_unknown_terms calls on one detector, a    *)
(* call made while total_cost >= max_cost fails without a request and       *)
(* leaves total_cost and call_count as they were; total_cost never          *)
(* decreases; call_count grows by one for each request that returned a      *)
(* response, the response that cannot be parsed included, and a request     *)
(* that raised leaves total_cost and call_count as they were.               *)
C29_CostBudget ==
    [][/\ detector.total_cost >= detector.max_cost => refused_unchanged
       /\ detector'.total_cost >= detector.total_cost
       /\ response_received => /\ request_issued
                               /\ detector'.call_count = detector.call_count + 1
       /\ ~response_received => /\ detector'.call_count = detector.call_count
                                /\ detector'.total_cost = detector.total_cost
       /\ detector'.last = "unparseable" => /\ request_issued
                                            /\ detector'.call_count = detector.call_count + 1
      ]_vars

(* A detector that counted two responses, had a third request fail, and    *)
(* refused its last call.                                                  *)
C29_Witness ==
    /\ pc = "budget"
    /\ detector.last = "refused"
    /\ detector.total_cost >= detector.max_cost
    /\ detector.max_cost > 0
    /\ detector.requests = 3
    /\ detector.responses = 2
    /\ detector.call_count = 2

(* call_count grows by one for each request issued. *)
C29_CountsEveryRequest ==
    [][/\ detector.total_cost >= detector.max_cost => refused_unchanged
       /\ detector'.total_cost >= detector.total_cost
       /\ request_issued => detector'.call_count = detector.call_count + 1
       /\ ~request_issued => detector'.call_count = detector.call_count
      ]_vars

====
